---- MODULE Spec2Model ----
(***************************************************************************)
(* Model of the video-summarizer processing pipeline:                      *)
(*   - the state store (config/config.py, src/core/aws_services.py),       *)
(*   - the source poller (youtube_poller.py),                              *)
(*   - the transcript acquirer (src/services/transcriber.py),              *)
(*   - the orchestrators (src/main.py CLI, src/lambda_handler.py).         *)
(* One action per blocking call of a cycle; the program is single-threaded *)
(* and synchronous, so pc names the call the cycle is about to make.       *)
(***************************************************************************)
EXTENDS Integers, Sequences, FiniteSets, TLC

(***************************************************************************)
(* Bounds of the model.                                                    *)
(***************************************************************************)
NumVideos == 2
MaxCycles == 3
MaxTracks == 2

(***************************************************************************)
(* Values.  Python's None is 0 for ids and titles; video ids are 1..N.     *)
(***************************************************************************)
None == 0
VideoIds == 1 .. NumVideos

\* snippet.get("title", "Untitled"): the title the poller reports for a video
TitleOf(v) == 100 + v

NoLatest == [video_id |-> None, title |-> None]

\* transcript texts: empty, whitespace only, plain text, text with padding
Transcripts == {"", "  ", "hello", " hi "}
NoTranscript == "<unset>"

\* str.strip()
Strip(s) == CASE s = "  " -> ""
              [] s = " hi " -> "hi"
              [] OTHER -> s

\* len(str)
StrLen(s) == CASE s = "" -> 0
               [] s = "  " -> 2
               [] s = "hello" -> 5
               [] s = " hi " -> 4
               [] s = "hi" -> 2
               [] OTHER -> 1

\* Python truthiness of a str
Truthy(s) == s # ""

Modes == {"once", "loop", "lambda"}

\* use_s3: config.use_aws and config.s3_state_bucket; s3_manager: the import of
\* S3StateManager succeeded (it is only looked at when use_s3 holds)
Configs ==
    {c \in [mode : Modes, use_s3 : BOOLEAN, s3_manager : BOOLEAN, email_enabled : BOOLEAN] :
        ~c.use_s3 => c.s3_manager}

\* process_latest_video(..., notify_no_new_videos=True) in run_once only
NotifyNoNewVideosArg(cfg) == cfg.mode = "once"

\* mutant: every polled item is taken for a new one
SameAsLast_Never(item, last) == FALSE

\* mutant: the title is compared with the stored id
SameAsLast_ByTitle(item, last) == item.title = last

\* if latest["video_id"] == last_video_id
SameAsLast(item, last) == item.video_id = last

\* if not transcript or not transcript.strip()
TranscriptIsEmpty(text) == ~Truthy(text) \/ ~Truthy(Strip(text))

\* mutant: "if youtube_transcript:", an empty caption text counts as none
CaptionAccepted_Truthy(text) == text \in Transcripts /\ Truthy(text)

\* if youtube_transcript is not None: any str, the empty one included
CaptionAccepted(text) == text \in Transcripts

\* mutant: the orchestrator goes from the transcript straight to the notification
AfterTranscribe_Notify == "notify"

\* mutant: the state write is left out
AfterTranscribe_NoSave == "summarize"

\* the statement process_latest_video runs when transcribe has returned
AfterTranscribe == "save"

\* mutant: the result email is sent whatever the summarizer did
NotificationFor_AlwaysSummary(has_bundle) == "send_summary_email"

\* if summaries: send_summary_email(...) else: send_error_email(...)
NotificationFor(has_bundle) ==
    IF has_bundle THEN "send_summary_email" ELSE "send_error_email"

\* mutant: the handler leaves error_reason at its default
ReasonFor_Default(msg) == "Unknown error: Unable to generate summaries."

\* except Exception as exc: error_reason = f"Failed to generate summaries: {str(exc)}"
ReasonFor(msg) == "Failed to generate summaries: " \o msg

(***************************************************************************)
(* State artifacts (local file and S3 object).                             *)
(***************************************************************************)
MissingArtifact == [kind |-> "missing", last_video_id |-> None, last_video_title |-> None]
InvalidArtifact == [kind |-> "invalid", last_video_id |-> None, last_video_title |-> None]
NonObjectArtifact == [kind |-> "nonobject", last_video_id |-> None, last_video_title |-> None]
\* bytes that are not UTF-8: read_text / decode raise UnicodeDecodeError
UndecodableArtifact == [kind |-> "undecodable", last_video_id |-> None, last_video_title |-> None]
\* a JSON object with keys besides the two of the state
ExtendedStateData(video_id, title) ==
    [kind |-> "object+", last_video_id |-> video_id, last_video_title |-> title]

\* the artifact parses to a dict: isinstance(data, dict)
IsDict(file) == file.kind \in {"object", "object+"}

\* mutant: the new data is merged into the keys the artifact had
WriteArtifact_Merge(old, data) ==
    IF old.kind = "object+" THEN [data EXCEPT !.kind = "object+"] ELSE data

\* write_text(json.dumps(data)) / put_object(Body=json.dumps(data)): the
\* artifact is replaced by the serialized data
WriteArtifact(old, data) == data

\* mutant: the title is not written
StateData_NoTitle(video_id, title) ==
    [kind |-> "object", last_video_id |-> video_id, last_video_title |-> None]

\* json.dumps({"last_video_id": video_id, "last_video_title": title or ""})
StateData(video_id, title) ==
    [kind |-> "object", last_video_id |-> video_id, last_video_title |-> title]

EmptyState == [last_video_id |-> None, last_video_title |-> None]

\* _load_state_file(path): {} when missing, invalid JSON or not a dict
LoadStateFile(file) ==
    IF IsDict(file)
    THEN [last_video_id |-> file.last_video_id, last_video_title |-> file.last_video_title]
    ELSE EmptyState

\* S3StateManager.load_state() when get_object answers: NoSuchKey, invalid
\* JSON and non-dict content give {}
S3LoadState(obj) ==
    IF IsDict(obj)
    THEN [last_video_id |-> obj.last_video_id, last_video_title |-> obj.last_video_title]
    ELSE EmptyState

(***************************************************************************)
(* Caption tracks offered by the transcript API.                           *)
(***************************************************************************)
Langs == {"en", "fr", "de"}
Tracks == [is_generated : BOOLEAN, language_code : Langs]
NoTrack == [is_generated |-> FALSE, language_code |-> "<none>"]
TrackLists == UNION {[1 .. n -> Tracks] : n \in 0 .. MaxTracks}

IsManual(t) == ~t.is_generated
IsGenerated(t) == t.is_generated
IsEnglish(t) == t.language_code = "en"

\* what a listing offers: manual_transcripts / auto_transcripts non-empty
NoOffer == [manual |-> FALSE, auto |-> FALSE]
OfferOf(tl) == [manual |-> SelectSeq(tl, IsManual) # <<>>,
                auto |-> SelectSeq(tl, IsGenerated) # <<>>]

\* mutant: the first track, whatever its language
PreferEnglish_First(tracks) == Head(tracks)

\* next((t for t in tracks if t.language_code == "en"), None) or tracks[0]
PreferEnglish(tracks) ==
    IF SelectSeq(tracks, IsEnglish) # <<>>
    THEN Head(SelectSeq(tracks, IsEnglish))
    ELSE Head(tracks)

VARIABLES
    config,          \* Config of the process
    state_file,      \* local state artifact (config.state_file)
    s3_object,       \* remote state artifact (state/last_video_id.json)
    poller,          \* YouTubePoller cache: _channel_id, _uploads_playlist
    pc,              \* the call the cycle is about to make
    cycle,           \* number of cycles started
    outcome,         \* how the last cycle left process_latest_video
    exc,             \* exception that propagated out of the cycle
    last_video_id,   \* local of process_latest_video
    latest,          \* local of process_latest_video
    transcript,      \* local of process_latest_video
    summaries,       \* local of process_latest_video: a bundle was produced
    error_reason,    \* local of process_latest_video (CLI)
    result,          \* result dict of the Lambda process_latest_video
    transcript_list, \* local of get_youtube_transcript
    chosen,          \* caption track being fetched
    audio_path,      \* artifact of download_audio
    whisper,         \* outcome of the speech-to-text call
    calls,           \* history: calls the orchestrator made in this cycle, in order
    tcalls,          \* history: calls the transcriber made in this cycle, in order
    mail,            \* history: notifications handed to the notifier in this cycle
    writes,          \* history: state writes of this cycle
    store_before,    \* history: both artifacts at the start of this cycle
    source,          \* history: the strategy that produced text in this cycle
    acquisition,     \* history: "none", "ok" or "failed" for this cycle
    offered,         \* history: kinds of track the listing offered, until the media fallback starts
    underlying,      \* history: exception raised by yt-dlp, open() or the speech-to-text call
    error,           \* exception transcribe raised to its caller
    store_op,        \* the last direct call of a state store function and its outcome
    generation,      \* the last direct call of the summarizer, its steps and its outcome
    delivery,        \* the last direct call of a send operation, its steps and its outcome
    summary_error,   \* history: message of the exception generate_summaries raised
    prev_failed,     \* history: the item whose acquisition failed in the cycle before
    handled,         \* history: ids whose transcript was acquired and state written
    startup          \* the last load_config of a process start: its environment and outcome

vars == <<config, state_file, s3_object, poller, pc, cycle, outcome, exc,
          last_video_id, latest, transcript, summaries, error_reason, result,
          transcript_list, chosen, audio_path, whisper, calls, tcalls, mail,
          writes, store_before, source, acquisition, summary_error, prev_failed,
          handled, offered, underlying, error, store_op, generation, delivery, startup>>

storeVars == <<state_file, s3_object, writes>>
transcriberVars == <<transcript_list, chosen, audio_path, whisper, tcalls, source, acquisition,
                     offered, underlying, error>>
localVars == <<last_video_id, latest, transcript, summaries, error_reason, summary_error>>
cycleVars == <<config, cycle, store_before, prev_failed, store_op, generation,
               delivery, startup>>

\* result dict at the top of the Lambda process_latest_video
InitialResult ==
    [success |-> FALSE, video_id |-> None, video_title |-> None,
     transcript_length |-> 0, summaries_generated |-> FALSE,
     email_sent |-> FALSE, message |-> ""]

\* no state store function has been called directly
NoOp == [name |-> "none", remote |-> "unused", read |-> "none", wrote |-> "none",
         raised |-> "none", value |-> None, video_id |-> None, title |-> None]

\* values of a call of the summarizer: a member that is missing, a text that is no JSON,
\* no reply, no outcome, no call
Absent == [type |-> "absent", text |-> <<>>, items |-> <<>>]

InvalidJson == [type |-> "invalid", short_summary |-> Absent, comprehensive_summary |-> Absent]

NoReply == [doc |-> InvalidJson, wrap |-> "none"]

NoResult ==
    [status |-> "none", exception |-> "none", message |-> "",
     short_summary |-> <<>>, comprehensive_summary |-> <<>>]

NoGeneration ==
    [name |-> "none", at |-> "idle", transcript |-> NoTranscript, reply |-> NoReply,
     response |-> <<>>, steps |-> <<>>, result |-> NoResult, model_loaded |-> FALSE, loads |-> 0]

\* no call of a send operation
NoDelivery ==
    [name |-> "none", legacy |-> FALSE, at |-> "idle", smtp_sender |-> <<>>, host |-> <<>>,
     timeout |-> 0, smtp |-> <<>>, status |-> "none", exception |-> "none",
     cause |-> "none"]

\* a setting as load_config sees it after secrets.get(name) or os.getenv(name):
\* not set anywhere, set to the empty string, or set to a value
Settings == {"unset", "", "set"}

\* no environment has been read
NoEnvironment ==
    [YOUTUBE_API_KEY |-> "unset", YOUTUBE_CHANNEL_HANDLE |-> "unset",
     SMTP_PASSWORD |-> "unset", SMTP_SENDER |-> "unset", SMTP_RECIPIENT |-> "unset"]

\* no process has called load_config
NoStartup ==
    [at |-> "none", env |-> NoEnvironment, exception |-> "none", message |-> "",
     missing |-> <<>>]

\* exceptions of the media fallback
NoError == [kind |-> "none", cause |-> "none"]

\* mutant: the underlying exception leaves transcribe as it is
WrapError_Bare(cause) == [kind |-> cause, cause |-> "none"]

\* raise RuntimeError(...) from exc
WrapError(cause) == [kind |-> "RuntimeError", cause |-> cause]

\* mutant: the artifact is never found, so never removed
ArtifactExists_Never(path) == FALSE

\* audio_path.exists()
ArtifactExists(path) == path = "file"

UnknownReason == "Unknown error: Unable to generate summaries."
EmptyTranscriptReason == "Transcript is empty or invalid, unable to generate summaries."
NotInitializedReason == "Summarizer was not initialized. Email summaries may be disabled in configuration."

Init ==
    /\ config \in Configs
    /\ state_file = MissingArtifact
    /\ s3_object = MissingArtifact
    /\ poller = [channel_id |-> FALSE, uploads_playlist |-> FALSE]
    /\ pc = "idle"
    /\ cycle = 0
    /\ outcome = "none"
    /\ exc = "none"
    /\ last_video_id = None
    /\ latest = NoLatest
    /\ transcript = NoTranscript
    /\ summaries = FALSE
    /\ error_reason = UnknownReason
    /\ result = InitialResult
    /\ transcript_list = <<>>
    /\ chosen = NoTrack
    /\ audio_path = "none"
    /\ whisper = NoTranscript
    /\ calls = <<>>
    /\ tcalls = <<>>
    /\ mail = <<>>
    /\ writes = <<>>
    /\ store_before = <<MissingArtifact, MissingArtifact>>
    /\ source = "none"
    /\ acquisition = "none"
    /\ summary_error = ""
    /\ prev_failed = None
    /\ handled = {}
    /\ offered = NoOffer
    /\ underlying = "none"
    /\ error = NoError
    /\ store_op = NoOp
    /\ generation = NoGeneration
    /\ delivery = NoDelivery
    /\ startup = NoStartup

(***************************************************************************)
(* An exception leaves the cycle.  The CLI process_latest_video has no     *)
(* handler around its calls; the Lambda one catches everything, records    *)
(* the message and returns the result with success = False.                *)
(***************************************************************************)
Raise(e, msg, res) ==
    /\ pc' = "idle"
    /\ IF config.mode = "lambda"
       THEN /\ result' = [res EXCEPT !.message = "Error: " \o msg, !.success = FALSE]
            /\ outcome' = "returned"
            /\ exc' = "none"
       ELSE /\ result' = res
            /\ outcome' = "raised"
            /\ exc' = e

\* the cycle returns normally
\* lambda_handler: "statusCode": 200 if result["success"] else 500
StatusCode(res) == IF res.success THEN 200 ELSE 500

Return(res) ==
    /\ pc' = "idle"
    /\ result' = res
    /\ outcome' = "returned"
    /\ exc' = "none"

\* entry of process_latest_video: fresh locals
EnterCycle ==
    /\ pc' = "load"
    /\ cycle' = cycle + 1
    /\ outcome' = "none"
    /\ exc' = "none"
    /\ last_video_id' = None
    /\ latest' = NoLatest
    /\ transcript' = NoTranscript
    /\ summaries' = FALSE
    /\ error_reason' = UnknownReason
    /\ result' = InitialResult
    /\ transcript_list' = <<>>
    /\ chosen' = NoTrack
    /\ audio_path' = "none"
    /\ whisper' = NoTranscript
    /\ calls' = <<>>
    /\ tcalls' = <<>>
    /\ mail' = <<>>
    /\ writes' = <<>>
    /\ store_before' = <<state_file, s3_object>>
    /\ source' = "none"
    /\ acquisition' = "none"
    /\ summary_error' = ""
    /\ prev_failed' = IF acquisition = "failed" THEN latest.video_id ELSE None
    /\ offered' = NoOffer
    /\ underlying' = "none"
    /\ error' = NoError

\* main() / lambda_handler: a new process builds its services and runs a cycle
Invoke ==
    /\ pc = "idle"
    /\ cycle < MaxCycles
    /\ config.mode = "loop" => outcome \in {"none", "raised"}
    /\ EnterCycle
    /\ poller' = [channel_id |-> FALSE, uploads_playlist |-> FALSE]
    /\ UNCHANGED <<config, state_file, s3_object, handled, store_op, generation, delivery,
                   startup>>

\* run_loop: sleep, then the next cycle with the same services
Sleep ==
    /\ pc = "idle"
    /\ cycle < MaxCycles
    /\ config.mode = "loop"
    /\ outcome = "returned"
    /\ EnterCycle
    /\ UNCHANGED <<config, state_file, s3_object, poller, handled, store_op, generation,
                   delivery, startup>>

\* load_last_video_id(config)
LoadLastVideoId ==
    /\ pc = "load"
    /\ calls' = Append(calls, "load_last_video_id")
    /\ IF config.use_s3 /\ ~config.s3_manager
       THEN /\ Raise("ValueError", "S3 state bucket configured but boto3 not installed.", result)
            /\ UNCHANGED last_video_id
       ELSE /\ \E s3_ok \in BOOLEAN :
                 last_video_id' =
                     IF config.use_s3 /\ s3_ok
                     THEN S3LoadState(s3_object).last_video_id
                     ELSE LoadStateFile(state_file).last_video_id
            /\ pc' = "poll"
            /\ UNCHANGED <<outcome, exc, result>>
    /\ UNCHANGED <<cycleVars, storeVars, poller, latest, transcript, summaries,
                   error_reason, summary_error, transcriberVars, mail, handled>>

\* poller.fetch_latest_video() and the two tests that follow it in
\* process_latest_video
FetchLatestVideo ==
    /\ pc = "poll"
    /\ calls' = Append(calls, "fetch_latest_video")
    /\ \/ \* the channel handle cannot be resolved: RuntimeError
          /\ ~poller.channel_id /\ ~poller.uploads_playlist
          /\ poller' = poller
          /\ Raise("RuntimeError", "Failed to resolve channel handle", result)
          /\ UNCHANGED latest
       \/ \* the uploads playlist cannot be resolved: RuntimeError
          /\ ~poller.uploads_playlist
          /\ poller' = [poller EXCEPT !.channel_id = TRUE]
          /\ Raise("RuntimeError", "Failed to fetch channel details", result)
          /\ UNCHANGED latest
       \/ \* HttpError on playlistItems().list, or no items: None
          /\ poller' = [channel_id |-> TRUE, uploads_playlist |-> TRUE]
          /\ latest' = NoLatest
          /\ Return([result EXCEPT !.message = "No videos found in channel"])
       \/ \E v \in VideoIds :
             /\ poller' = [channel_id |-> TRUE, uploads_playlist |-> TRUE]
             /\ latest' = [video_id |-> v, title |-> TitleOf(v)]
             /\ IF SameAsLast(latest', last_video_id)
                THEN IF config.mode = "lambda"
                     THEN Return([result EXCEPT !.message = "No new videos since last check",
                                                !.success = TRUE])
                     ELSE IF NotifyNoNewVideosArg(config) /\ config.email_enabled
                          THEN pc' = "no_new" /\ UNCHANGED <<outcome, exc, result>>
                          ELSE Return(result)
                ELSE /\ pc' = "transcribe"
                     /\ result' = IF config.mode = "lambda"
                                  THEN [result EXCEPT !.video_id = v, !.video_title = TitleOf(v)]
                                  ELSE result
                     /\ UNCHANGED <<outcome, exc>>
    /\ UNCHANGED <<cycleVars, storeVars, last_video_id, transcript, summaries,
                   error_reason, summary_error, transcriberVars, mail, handled>>

\* the title lookup of the no-new-videos branch: state_data.get("last_video_title") or None
\* read from S3 when configured (any failure: no title), else from the local file
LastVideoTitle_Missing(s3_ok) == None

\* last_video_title as process_latest_video loads it for the no-new notification
LastVideoTitle(s3_ok) ==
    IF config.use_s3 /\ config.s3_manager
    THEN IF s3_ok THEN S3LoadState(s3_object).last_video_title ELSE None
    ELSE IF IsDict(state_file) THEN state_file.last_video_title ELSE None

\* mutant: the failure of a send leaves the cycle
NotifyEnds_Propagates(sent, res) ==
    IF sent THEN Return(res) ELSE Raise("RuntimeError", "SMTP delivery failed", res)

\* the end of the notification step: a failed send is logged, the cycle returns
NotifyEnds(sent, res) == Return(res)

\* the no-new-videos branch of the CLI process_latest_video
NotifyNoNewVideos ==
    /\ pc = "no_new"
    /\ calls' = IF (config.use_s3 /\ config.s3_manager) \/ state_file.kind # "missing"
                THEN calls \o <<"load_state", "send_no_new_videos_email">>
                ELSE Append(calls, "send_no_new_videos_email")
    /\ \E s3_ok \in BOOLEAN, sent \in BOOLEAN :
          /\ mail' = Append(mail, [op |-> "send_no_new_videos_email",
                                   title |-> LastVideoTitle(s3_ok),
                                   reason |-> "", delivered |-> sent])
          /\ NotifyEnds(sent, result)
    /\ UNCHANGED <<cycleVars, storeVars, poller, localVars, transcriberVars, handled>>

(***************************************************************************)
(* WhisperTranscriber.transcribe(video_id)                                 *)
(***************************************************************************)
\* transcribe returns text to process_latest_video
TranscribeReturns(text) ==
    /\ transcript' = text
    /\ acquisition' = "ok"
    /\ pc' = AfterTranscribe
    /\ result' = IF config.mode = "lambda"
                 THEN [result EXCEPT !.transcript_length = StrLen(text)]
                 ELSE result
    /\ transcript_list' = <<>>
    /\ chosen' = NoTrack
    /\ whisper' = NoTranscript
    /\ UNCHANGED <<outcome, exc>>

\* transcribe raises RuntimeError
TranscribeRaises(msg) ==
    /\ acquisition' = "failed"
    /\ Raise("RuntimeError", msg, result)
    /\ UNCHANGED <<transcript, transcript_list, chosen, whisper>>

\* YouTubeTranscriptApi.list_transcripts and the choice of the track
ListTranscripts ==
    /\ pc = "transcribe"
    /\ calls' = Append(calls, "transcribe")
    /\ tcalls' = Append(tcalls, "list_transcripts")
    /\ \/ \* NoTranscriptFound, TranscriptsDisabled, VideoUnavailable, other: None
          /\ pc' = "download"
          /\ UNCHANGED <<transcript_list, chosen, offered>>
       \/ \E tl \in TrackLists :
          /\ offered' = OfferOf(tl)
          /\ IF SelectSeq(tl, IsManual) # <<>>
             THEN /\ transcript_list' = tl
                  /\ chosen' = PreferEnglish(SelectSeq(tl, IsManual))
                  /\ pc' = "fetch"
             ELSE IF SelectSeq(tl, IsGenerated) # <<>>
                  THEN /\ transcript_list' = tl
                       /\ chosen' = PreferEnglish(SelectSeq(tl, IsGenerated))
                       /\ pc' = "fetch"
                  ELSE /\ transcript_list' = <<>>
                       /\ chosen' = NoTrack
                       /\ pc' = "download"
    /\ UNCHANGED <<cycleVars, storeVars, poller, outcome, exc, localVars, result,
                   audio_path, whisper, source, acquisition, mail, handled,
                   underlying, error>>

\* transcript.fetch() of the chosen track and " ".join of its entries, then
\* the test of transcribe on what get_youtube_transcript returned
FetchTranscript ==
    /\ pc = "fetch"
    /\ tcalls' = Append(tcalls, IF chosen.is_generated THEN "fetch_auto" ELSE "fetch_manual")
    /\ \/ \* fetch raises: get_youtube_transcript returns None
          /\ pc' = "download"
          /\ transcript_list' = <<>>
          /\ chosen' = NoTrack
          /\ UNCHANGED <<transcript, outcome, exc, result, whisper, source, acquisition,
                         offered>>
       \/ \E text \in Transcripts :
             /\ source' = IF chosen.is_generated THEN "auto_caption" ELSE "manual_caption"
             /\ IF CaptionAccepted(text)
                THEN /\ TranscribeReturns(text)
                     /\ offered' = NoOffer
                ELSE /\ pc' = "download"
                     /\ transcript_list' = <<>>
                     /\ chosen' = NoTrack
                     /\ UNCHANGED <<transcript, outcome, exc, result, whisper, acquisition,
                                    offered>>
    /\ UNCHANGED <<cycleVars, storeVars, poller, last_video_id, latest, summaries,
                   error_reason, summary_error, audio_path, calls, mail, handled,
                   underlying, error>>

\* download_audio(video_id)
DownloadAudio ==
    /\ pc = "download"
    /\ tcalls' = Append(tcalls, "download_audio")
    /\ \/ \* yt-dlp fails: RuntimeError out of transcribe
          /\ TranscribeRaises("Failed to download audio")
          /\ underlying' = "DownloadError"
          /\ error' = WrapError("DownloadError")
          /\ UNCHANGED audio_path
       \/ \E file \in {"file", "nofile"} :
             /\ audio_path' = file
             /\ pc' = "whisper"
             /\ UNCHANGED <<outcome, exc, result, transcript, transcript_list, chosen,
                            whisper, acquisition, underlying, error>>
    /\ offered' = NoOffer
    /\ UNCHANGED <<cycleVars, storeVars, poller, last_video_id, latest, summaries,
                   error_reason, summary_error, source, calls, mail, handled>>

\* the try block of transcribe: open the artifact, call the speech-to-text API
WhisperTranscription ==
    /\ pc = "whisper"
    /\ IF audio_path = "nofile"
       THEN /\ whisper' = "<raised>"
            /\ underlying' = "FileNotFoundError"
            /\ UNCHANGED tcalls
       ELSE /\ tcalls' = Append(tcalls, "transcriptions.create")
            /\ \E r \in Transcripts \cup {"<raised>"} :
                  /\ whisper' = r
                  /\ underlying' = IF r = "<raised>" THEN "APIError" ELSE underlying
    /\ pc' = "cleanup"
    /\ UNCHANGED <<cycleVars, storeVars, poller, outcome, exc, localVars, result,
                   transcript_list, chosen, audio_path, source, acquisition, calls, mail,
                   handled, offered, error>>

\* the finally block of transcribe, then its return or its RuntimeError
CleanupAudio ==
    /\ pc = "cleanup"
    /\ IF ArtifactExists(audio_path)
       THEN /\ tcalls' = Append(tcalls, "os.remove")
            /\ \E removed \in BOOLEAN :
                  audio_path' = IF removed THEN "removed" ELSE "file"
       ELSE UNCHANGED <<tcalls, audio_path>>
    /\ IF whisper = "<raised>"
       THEN /\ TranscribeRaises("Whisper transcription failed")
            /\ error' = WrapError(underlying)
            /\ UNCHANGED source
       ELSE /\ TranscribeReturns(whisper)
            /\ source' = "media_fallback"
            /\ UNCHANGED error
    /\ UNCHANGED <<cycleVars, storeVars, poller, last_video_id, latest, summaries,
                   error_reason, summary_error, calls, mail, handled, offered, underlying>>

(***************************************************************************)
(* The summarizer as the orchestrator sees it: generate_summaries either   *)
(* returns a bundle or raises with a message.                              *)
(***************************************************************************)
EmptyTranscriptError == "Transcript is empty; nothing to summarize."

SummarizerErrors ==
    {"Failed to load model", "Model generation failed: Model returned an empty response.",
     "Model response was not valid JSON", "Model response missing summary keys",
     "Summaries must not be empty."}

\* outcomes of generate_summaries(text): "" stands for a returned bundle
GenerateSummaries(text) ==
    IF Strip(text) = ""
    THEN {EmptyTranscriptError}
    ELSE {""} \cup SummarizerErrors

\* save_last_video_id(config, latest["video_id"], title=latest["title"])
SaveLastVideoId ==
    /\ pc = "save"
    /\ calls' = Append(calls, "save_last_video_id")
    /\ IF config.use_s3 /\ ~config.s3_manager
       THEN /\ Raise("ValueError", "S3 state bucket configured but boto3 not installed.", result)
            /\ UNCHANGED <<storeVars, handled>>
       ELSE /\ \E s3_ok \in BOOLEAN :
                 IF config.use_s3 /\ s3_ok
                 THEN /\ s3_object' = WriteArtifact(s3_object, StateData(latest.video_id, latest.title))
                      /\ writes' = Append(writes, [backend |-> "s3",
                                                   data |-> StateData(latest.video_id, latest.title)])
                      /\ UNCHANGED state_file
                 ELSE /\ state_file' = WriteArtifact(state_file, StateData(latest.video_id, latest.title))
                      /\ writes' = Append(writes, [backend |-> "local",
                                                   data |-> StateData(latest.video_id, latest.title)])
                      /\ UNCHANGED s3_object
            /\ handled' = handled \cup {latest.video_id}
            /\ pc' = "summarize"
            /\ UNCHANGED <<outcome, exc, result>>
    /\ UNCHANGED <<cycleVars, poller, localVars, transcriberVars, mail>>

\* the summarization step of the CLI process_latest_video
SummarizeCli ==
    /\ pc = "summarize"
    /\ config.mode # "lambda"
    /\ IF TranscriptIsEmpty(transcript)
       THEN /\ error_reason' = EmptyTranscriptReason
            /\ UNCHANGED <<summaries, summary_error, calls>>
       ELSE IF config.email_enabled
            THEN /\ calls' = Append(calls, "generate_summaries")
                 /\ \E r \in GenerateSummaries(transcript) :
                       IF r = ""
                       THEN /\ summaries' = TRUE
                            /\ UNCHANGED <<error_reason, summary_error>>
                       ELSE /\ summary_error' = r
                            /\ error_reason' = ReasonFor(r)
                            /\ UNCHANGED summaries
            ELSE /\ error_reason' = NotInitializedReason
                 /\ UNCHANGED <<summaries, summary_error, calls>>
    /\ pc' = "notify"
    /\ UNCHANGED <<cycleVars, storeVars, poller, outcome, exc, last_video_id, latest,
                   transcript, result, transcriberVars, mail, handled>>

\* the notification step of the CLI process_latest_video, then its return
NotifyCli ==
    /\ pc = "notify"
    /\ config.mode # "lambda"
    /\ IF config.email_enabled
       THEN /\ calls' = Append(calls, NotificationFor(summaries))
            /\ \E sent \in BOOLEAN :
                  /\ mail' = Append(mail,
                        [op |-> NotificationFor(summaries),
                         title |-> latest.title,
                         reason |-> IF NotificationFor(summaries) = "send_error_email"
                                    THEN error_reason ELSE "",
                         delivered |-> sent])
                  /\ NotifyEnds(sent, result)
       ELSE /\ UNCHANGED <<calls, mail>>
            /\ Return(result)
    /\ UNCHANGED <<cycleVars, storeVars, poller, localVars, transcriberVars, handled>>

\* the summarization step of the Lambda process_latest_video
SummarizeLambda ==
    /\ pc = "summarize"
    /\ config.mode = "lambda"
    /\ IF config.email_enabled
       THEN /\ calls' = Append(calls, "generate_summaries")
            /\ \E r \in GenerateSummaries(transcript) :
                  IF r = ""
                  THEN /\ summaries' = TRUE
                       /\ result' = [result EXCEPT !.summaries_generated = TRUE]
                       /\ UNCHANGED summary_error
                  ELSE /\ summary_error' = r
                       /\ result' = [result EXCEPT !.message = ReasonFor(r)]
                       /\ UNCHANGED summaries
       ELSE UNCHANGED <<summaries, summary_error, calls, result>>
    /\ pc' = "notify"
    /\ UNCHANGED <<cycleVars, storeVars, poller, outcome, exc, last_video_id, latest,
                   transcript, error_reason, transcriberVars, mail, handled>>

\* the notification step of the Lambda process_latest_video, then its return
NotifyLambda ==
    /\ pc = "notify"
    /\ config.mode = "lambda"
    /\ IF config.email_enabled /\ summaries
       THEN /\ calls' = Append(calls, "send_summary_email")
            /\ \E sent \in BOOLEAN :
                  /\ mail' = Append(mail, [op |-> "send_summary_email",
                                           title |-> latest.title,
                                           reason |-> "", delivered |-> sent])
                  /\ Return([result EXCEPT
                               !.email_sent = sent,
                               !.success = TRUE,
                               !.message = IF sent
                                           THEN IF result.message = ""
                                                THEN "Successfully processed video"
                                                ELSE result.message
                                           ELSE "Failed to send email"])
       ELSE /\ UNCHANGED <<calls, mail>>
            /\ Return([result EXCEPT
                         !.success = TRUE,
                         !.message = IF result.message = ""
                                     THEN "Successfully processed video"
                                     ELSE result.message])
    /\ UNCHANGED <<cycleVars, storeVars, poller, localVars, transcriberVars, handled>>

Next ==
    \/ Invoke
    \/ Sleep
    \/ LoadLastVideoId
    \/ FetchLatestVideo
    \/ NotifyNoNewVideos
    \/ ListTranscripts
    \/ FetchTranscript
    \/ DownloadAudio
    \/ WhisperTranscription
    \/ CleanupAudio
    \/ SaveLastVideoId
    \/ SummarizeCli
    \/ NotifyCli
    \/ SummarizeLambda
    \/ NotifyLambda

Spec == Init /\ [][Next]_vars

(***************************************************************************)
(* The state store on its own: load_last_video_id and save_last_video_id   *)
(* of config/config.py and of the flat config.py, called on artifacts of   *)
(* any content.                                                            *)
(***************************************************************************)
Artifacts ==
    {MissingArtifact, InvalidArtifact, NonObjectArtifact, UndecodableArtifact}
    \cup {StateData(v, TitleOf(v)) : v \in VideoIds}
    \cup {ExtendedStateData(v, TitleOf(v)) : v \in VideoIds}

StoreConfigs == {c \in Configs : c.mode = "once" /\ ~c.email_enabled}

\* everything but the configuration, the two artifacts and the records of direct calls
pipelineVars == <<poller, pc, cycle, outcome, exc, last_video_id, latest, transcript,
                  summaries, error_reason, result, transcript_list, chosen, audio_path,
                  whisper, calls, tcalls, mail, writes, source, acquisition,
                  summary_error, prev_failed, handled, offered, underlying, error, delivery,
                  startup>>

StoreInit ==
    /\ config \in StoreConfigs
    /\ state_file \in Artifacts
    /\ s3_object \in Artifacts
    /\ store_op = NoOp
    /\ generation = NoGeneration
    /\ delivery = NoDelivery
    /\ startup = NoStartup
    /\ store_before = <<state_file, s3_object>>
    /\ poller = [channel_id |-> FALSE, uploads_playlist |-> FALSE]
    /\ pc = "idle"
    /\ cycle = 0
    /\ outcome = "none"
    /\ exc = "none"
    /\ last_video_id = None
    /\ latest = NoLatest
    /\ transcript = NoTranscript
    /\ summaries = FALSE
    /\ error_reason = UnknownReason
    /\ result = InitialResult
    /\ transcript_list = <<>>
    /\ chosen = NoTrack
    /\ audio_path = "none"
    /\ whisper = NoTranscript
    /\ calls = <<>>
    /\ tcalls = <<>>
    /\ mail = <<>>
    /\ writes = <<>>
    /\ source = "none"
    /\ acquisition = "none"
    /\ summary_error = ""
    /\ prev_failed = None
    /\ handled = {}
    /\ offered = NoOffer
    /\ underlying = "none"
    /\ error = NoError

\* path.read_text(encoding="utf-8") / Body.read().decode("utf-8") raise
Undecodable(file) == file.kind = "undecodable"

\* the outcome of _load_state_file(config.state_file).get("last_video_id")
LocalLoad(name, file) ==
    IF Undecodable(file)
    THEN [NoOp EXCEPT !.name = name, !.read = "local", !.raised = "UnicodeDecodeError"]
    ELSE [NoOp EXCEPT !.name = name, !.read = "local",
                      !.value = LoadStateFile(file).last_video_id]

\* load_last_video_id(config) of config/config.py
LoadLastVideoIdCall ==
    /\ IF config.use_s3
       THEN IF ~config.s3_manager
            THEN store_op' = [NoOp EXCEPT !.name = "load", !.remote = "unavailable",
                                          !.raised = "ValueError"]
            ELSE \E s3_ok \in BOOLEAN :
                    store_op' =
                        IF s3_ok /\ ~Undecodable(s3_object)
                        THEN [NoOp EXCEPT !.name = "load", !.remote = "ok", !.read = "s3",
                                          !.value = S3LoadState(s3_object).last_video_id]
                        ELSE [LocalLoad("load", state_file) EXCEPT !.remote = "failed"]
       ELSE store_op' = LocalLoad("load", state_file)
    /\ store_before' = <<state_file, s3_object>>
    /\ UNCHANGED <<config, state_file, s3_object, pipelineVars, generation>>

\* save_last_video_id(config, video_id, title) of config/config.py
SaveLastVideoIdCall(v) ==
    /\ store_before' = <<state_file, s3_object>>
    /\ IF config.use_s3 /\ ~config.s3_manager
       THEN /\ store_op' = [NoOp EXCEPT !.name = "save", !.remote = "unavailable",
                                        !.raised = "ValueError",
                                        !.video_id = v, !.title = TitleOf(v)]
            /\ UNCHANGED <<state_file, s3_object>>
       ELSE \E s3_ok \in BOOLEAN :
               IF config.use_s3 /\ s3_ok
               THEN /\ s3_object' = WriteArtifact(s3_object, StateData(v, TitleOf(v)))
                    /\ store_op' = [NoOp EXCEPT !.name = "save", !.remote = "ok",
                                                !.wrote = "s3",
                                                !.video_id = v, !.title = TitleOf(v)]
                    /\ UNCHANGED state_file
               ELSE /\ state_file' = WriteArtifact(state_file, StateData(v, TitleOf(v)))
                    /\ store_op' = [NoOp EXCEPT !.name = "save", !.wrote = "local",
                                                !.remote = IF config.use_s3 THEN "failed"
                                                           ELSE "unused",
                                                !.video_id = v, !.title = TitleOf(v)]
                    /\ UNCHANGED s3_object
    /\ UNCHANGED <<config, pipelineVars, generation>>

\* load_last_video_id(path) of the flat config.py: data.get on whatever
\* json.loads returned
LegacyLoadLastVideoId ==
    /\ store_op' =
          CASE Undecodable(state_file) ->
                 [NoOp EXCEPT !.name = "legacy_load", !.read = "local",
                              !.raised = "UnicodeDecodeError"]
            [] state_file.kind = "nonobject" ->
                 [NoOp EXCEPT !.name = "legacy_load", !.read = "local",
                              !.raised = "AttributeError"]
            [] OTHER ->
                 [NoOp EXCEPT !.name = "legacy_load", !.read = "local",
                              !.value = IF IsDict(state_file)
                                        THEN state_file.last_video_id ELSE None]
    /\ store_before' = <<state_file, s3_object>>
    /\ UNCHANGED <<config, state_file, s3_object, pipelineVars, generation>>

\* save_last_video_id(path, video_id) of the flat config.py
LegacySaveLastVideoId(v) ==
    /\ store_before' = <<state_file, s3_object>>
    /\ state_file' = WriteArtifact(state_file, StateData(v, None))
    /\ store_op' = [NoOp EXCEPT !.name = "legacy_save", !.wrote = "local", !.video_id = v]
    /\ UNCHANGED <<config, s3_object, pipelineVars, generation>>

StoreNext ==
    \/ LoadLastVideoIdCall
    \/ \E v \in VideoIds : SaveLastVideoIdCall(v)
    \/ LegacyLoadLastVideoId
    \/ \E v \in VideoIds : LegacySaveLastVideoId(v)

StoreSpec == StoreInit /\ [][StoreNext]_vars

(***************************************************************************)
(* The summarizer on its own: generate_summaries and _parse_response of    *)
(* src/services/summarizer.py and of the flat summarizer.py.  A text is    *)
(* the sequence of its tokens: a code fence, the json tag, a newline, a    *)
(* blank, a brace, a quote, a word.                                        *)
(***************************************************************************)
\* the three backticks that open and close a markdown code block
Fence == "fence"
Whitespace == {" ", "nl"}

RECURSIVE StripLeft(_)
StripLeft(text) ==
    IF text # <<>> /\ Head(text) \in Whitespace THEN StripLeft(Tail(text)) ELSE text

RECURSIVE StripRight(_)
StripRight(text) ==
    IF text # <<>> /\ text[Len(text)] \in Whitespace
    THEN StripRight(SubSeq(text, 1, Len(text) - 1))
    ELSE text

\* str.strip() of a text
StripText(text) == StripRight(StripLeft(text))

Positions(text, token) == {i \in 1 .. Len(text) : text[i] = token}
First(S) == CHOOSE i \in S : \A j \in S : i <= j
Last(S) == CHOOSE i \in S : \A j \in S : j <= i

\* values a JSON member can hold: text for a string or a number, items for a list
StringTexts ==
    {<<>>, <<" ">>, <<"a">>, <<" ", "a", " ">>, <<"a", Fence, "b">>,
     <<"a", Fence, "b", Fence, "c">>}

\* members of a nested object: none, or one key with a string
ObjectMembers == {<<>>, <<"k:", "\"", "a", "\"">>}

ListItems == {<<>>, << <<>> >>, << <<" ">> >>, << <<"a">>, <<"b">> >>}

JsonValues ==
    [type : {"string"}, text : StringTexts, items : {<<>>}]
    \cup [type : {"list"}, text : {<<>>}, items : ListItems]
    \cup [type : {"null"}, text : {<<>>}, items : {<<>>}]
    \cup [type : {"object"}, text : ObjectMembers, items : {<<>>}]
    \cup [type : {"number"}, text : {<<"0">>}, items : {<<>>}]

\* JSON documents: objects with or without the two members, and documents that are no object
JsonDocs ==
    [type : {"object"}, short_summary : JsonValues \cup {Absent},
     comprehensive_summary : JsonValues \cup {Absent}]
    \cup [type : {"list", "number"}, short_summary : {Absent}, comprehensive_summary : {Absent}]

SerString(text) == <<"\"">> \o text \o <<"\"">>

RECURSIVE SerItems(_)
SerItems(items) ==
    IF items = <<>>
    THEN <<>>
    ELSE SerString(Head(items))
         \o (IF Tail(items) = <<>> THEN <<>> ELSE <<",">> \o SerItems(Tail(items)))

\* the JSON text of a member value
SerValue(v) ==
    CASE v.type = "string" -> SerString(v.text)
      [] v.type = "list" -> <<"[">> \o SerItems(v.items) \o <<"]">>
      [] v.type = "object" -> <<"{">> \o v.text \o <<"}">>
      [] v.type = "number" -> v.text
      [] v.type = "null" -> <<"null">>

SerMember(key, v) == IF v = Absent THEN <<>> ELSE <<key>> \o SerValue(v)

\* the JSON text of a document
SerDoc(d) ==
    CASE d.type = "object" ->
            <<"{">> \o SerMember("short_summary:", d.short_summary)
            \o (IF d.short_summary # Absent /\ d.comprehensive_summary # Absent
                THEN <<",">> ELSE <<>>)
            \o SerMember("comprehensive_summary:", d.comprehensive_summary)
            \o <<"}">>
      [] d.type = "list" -> <<"[", "]">>
      [] d.type = "number" -> <<"0">>

JsonTexts == [d \in JsonDocs |-> SerDoc(d)]

\* json.loads(text): the document the text spells, surrounding whitespace aside
JsonLoads(text) ==
    IF \E d \in JsonDocs : JsonTexts[d] = StripText(text)
    THEN CHOOSE d \in JsonDocs : JsonTexts[d] = StripText(text)
    ELSE InvalidJson

\* what the model writes around the document
Wraps == {"raw", "fence", "json_fence", "prose", "padded", "braced_prose"}

Replies ==
    [doc : JsonDocs, wrap : Wraps]
    \cup [doc : {InvalidJson}, wrap : {"prose", "padded", "braced_prose"}]

\* the text of a reply
Render(reply) ==
    LET body == IF reply.doc = InvalidJson THEN <<>> ELSE SerDoc(reply.doc)
    IN CASE reply.wrap = "raw" -> body
         [] reply.wrap = "fence" -> <<Fence, "nl">> \o body \o <<"nl", Fence>>
         [] reply.wrap = "json_fence" -> <<Fence, "json", "nl">> \o body \o <<"nl", Fence>>
         [] reply.wrap = "prose" -> <<"word", " ">> \o body \o <<" ", "word">>
         [] reply.wrap = "padded" -> <<"nl">> \o body \o <<" ">>
         [] reply.wrap = "braced_prose" -> <<"word", "{", "word", "}", " ">> \o body
         [] OTHER -> <<>>

\* _extract_json_from_markdown(text): re.search of fence (?:json)?\s*\n?(.*?)\n? fence
ExtractJsonFromMarkdown(text) ==
    LET fences == Positions(text, Fence)
    IN IF Cardinality(fences) >= 2
       THEN LET open == First(fences)
                close == First(fences \ {open})
                inner == SubSeq(text, open + 1, close - 1)
                group == IF inner # <<>> /\ Head(inner) = "json" THEN Tail(inner) ELSE inner
            IN StripText(group)
       ELSE StripText(text)

\* re.search(r"\{.*\}", cleaned_text, re.DOTALL): first opening to last closing brace
JsonMatch(cleaned_text) ==
    LET opens == Positions(cleaned_text, "{")
        closes == Positions(cleaned_text, "}")
    IN IF opens # {} /\ \E c \in closes : c > First(opens)
       THEN SubSeq(cleaned_text, First(opens), Last(closes))
       ELSE cleaned_text

RECURSIVE Join(_)
Join(items) ==
    IF items = <<>>
    THEN <<>>
    ELSE Head(items) \o (IF Tail(items) = <<>> THEN <<>> ELSE <<" ">> \o Join(Tail(items)))

\* json.dumps(value, indent=2) of an object: its members on lines of their own
JsonDumps(v) ==
    IF v.text = <<>> THEN <<"{", "}">> ELSE <<"{", "nl", " ", " ">> \o v.text \o <<"nl", "}">>

Coerce_TextOnly(v) == IF v.type = "string" THEN StripText(v.text) ELSE <<>>

\* the str a member value is turned into
Coerce(v) ==
    CASE v.type = "object" -> JsonDumps(v)
      [] v.type = "list" -> Join(v.items)
      [] v.type = "null" -> <<"None">>
      [] OTHER -> StripText(v.text)

SummariesEmpty_Never(short, comprehensive) == FALSE

\* not short or not comprehensive
SummariesEmpty(short, comprehensive) == short = <<>> \/ comprehensive = <<>>

Raises(exception, message) ==
    [NoResult EXCEPT !.status = "raised", !.exception = exception, !.message = message]

Returns(short, comprehensive) ==
    [NoResult EXCEPT !.status = "returned", !.short_summary = short,
                     !.comprehensive_summary = comprehensive]

\* _parse_response(response_text) of src/services/summarizer.py
ParseResponse(response_text) ==
    IF StripText(response_text) = <<>>
    THEN Raises("ValueError", "Model response was empty.")
    ELSE LET parsed == JsonLoads(JsonMatch(ExtractJsonFromMarkdown(response_text)))
         IN IF parsed = InvalidJson
            THEN Raises("ValueError", "Model response was not valid JSON")
            ELSE IF parsed.type # "object"
            THEN Raises("TypeError", "")
            ELSE IF parsed.short_summary = Absent \/ parsed.comprehensive_summary = Absent
            THEN Raises("ValueError", "Model response missing summary keys")
            ELSE LET short == Coerce(parsed.short_summary)
                     comprehensive == Coerce(parsed.comprehensive_summary)
                 IN IF SummariesEmpty(short, comprehensive)
                    THEN Raises("ValueError", "Summaries must not be empty.")
                    ELSE Returns(short, comprehensive)

\* _parse_response(response_text) of the flat summarizer.py
LegacyParseResponse(response_text) ==
    LET parsed == JsonLoads(response_text)
    IN IF parsed = InvalidJson
       THEN Raises("ValueError", "Model response was not valid JSON.")
       ELSE IF parsed.type # "object"
       THEN Raises("TypeError", "")
       ELSE IF parsed.short_summary = Absent
       THEN Raises("ValueError", "Model response missing summary keys.")
       ELSE IF parsed.short_summary.type # "string"
       THEN Raises("AttributeError", "")
       ELSE IF parsed.comprehensive_summary = Absent
       THEN Raises("ValueError", "Model response missing summary keys.")
       ELSE IF parsed.comprehensive_summary.type # "string"
       THEN Raises("AttributeError", "")
       ELSE LET short == StripText(parsed.short_summary.text)
                comprehensive == StripText(parsed.comprehensive_summary.text)
            IN IF SummariesEmpty(short, comprehensive)
               THEN Raises("ValueError", "Summaries must not be empty.")
               ELSE Returns(short, comprehensive)

AfterValidation_NoCheck(normalized) == "proceed"

\* normalized = transcript.strip(); if not normalized: raise ValueError(...)
AfterValidation(normalized) == IF ~Truthy(normalized) THEN "raise" ELSE "proceed"

Finish_Retry(g, res) ==
    [g EXCEPT !.at = IF res.status = "raised" /\ g.steps[Len(g.steps)] # "generate_summaries"
                     THEN "call_model" ELSE "done",
              !.result = res]

\* the call ends here, with a bundle or with an exception: nothing is attempted again
Finish(g, res) == [g EXCEPT !.at = "done", !.result = res]

\* generate_summaries(transcript) of src/services/summarizer.py, up to _load_model
GenerateSummariesCall(t) ==
    /\ generation.at = "idle"
    /\ LET g == [NoGeneration EXCEPT !.name = "generate_summaries", !.transcript = t,
                                     !.steps = <<"generate_summaries">>,
                                     !.model_loaded = generation.model_loaded,
                                     !.loads = generation.loads]
       IN generation' =
            IF AfterValidation(Strip(t)) = "raise"
            THEN Finish(g, Raises("ValueError", EmptyTranscriptError))
            ELSE [g EXCEPT !.at = "load_model"]
    /\ UNCHANGED <<config, state_file, s3_object, store_op, store_before, pipelineVars>>

ModelCached_Never(g) == FALSE

\* if self._model is not None and self._tokenizer is not None: return them
ModelCached(g) == g.model_loaded

\* self._load_model(): the cached pair, or the tokenizer and the model loaded now
LoadModel ==
    /\ generation.at = "load_model"
    /\ LET g == [generation EXCEPT !.steps = Append(@, "_load_model")]
           l == [g EXCEPT !.steps = Append(@, "from_pretrained")]
       IN IF ModelCached(generation)
          THEN generation' = [g EXCEPT !.at = "call_model"]
          ELSE \E loaded \in {"ok", "Failed to load tokenizer", "Failed to load model"} :
                  generation' =
                     IF loaded = "ok"
                     THEN [l EXCEPT !.at = "call_model", !.model_loaded = TRUE,
                                    !.loads = @ + 1]
                     ELSE Finish(l, Raises("ValueError", loaded))
    /\ UNCHANGED <<config, state_file, s3_object, store_op, store_before, pipelineVars>>

\* self._call_model(model, tokenizer, prompt)
CallModel ==
    /\ generation.at = "call_model"
    /\ LET g == [generation EXCEPT !.steps = Append(@, "_call_model")]
       IN \/ generation' = Finish(g, Raises("ValueError", "Model generation failed"))
          \/ \E reply \in Replies :
                generation' =
                   IF StripText(Render(reply)) = <<>>
                   THEN Finish([g EXCEPT !.reply = reply],
                               Raises("ValueError",
                                      "Model generation failed: Model returned an empty response."))
                   ELSE [g EXCEPT !.at = "parse", !.reply = reply,
                                  !.response = StripText(Render(reply))]
    /\ UNCHANGED <<config, state_file, s3_object, store_op, store_before, pipelineVars>>

\* return self._parse_response(response)
ParseResponseStep ==
    /\ generation.at = "parse"
    /\ generation' =
          Finish([generation EXCEPT !.steps = Append(@, "_parse_response")],
                 IF generation.name = "legacy_generate_summaries"
                 THEN LegacyParseResponse(generation.response)
                 ELSE ParseResponse(generation.response))
    /\ UNCHANGED <<config, state_file, s3_object, store_op, store_before, pipelineVars>>

\* _parse_response(response_text) called with the text of a reply as it is
ParseResponseCall(reply) ==
    /\ generation.at = "idle"
    /\ generation' =
          Finish([NoGeneration EXCEPT !.name = "_parse_response", !.reply = reply,
                                      !.response = Render(reply),
                                      !.steps = <<"_parse_response">>,
                                      !.model_loaded = generation.model_loaded,
                                     !.loads = generation.loads],
                 ParseResponse(Render(reply)))
    /\ UNCHANGED <<config, state_file, s3_object, store_op, store_before, pipelineVars>>

\* generate_summaries(transcript) of the flat summarizer.py, up to _call_model
LegacyGenerateSummariesCall(t) ==
    /\ generation.at = "idle"
    /\ LET g == [NoGeneration EXCEPT !.name = "legacy_generate_summaries", !.transcript = t,
                                     !.steps = <<"generate_summaries">>,
                                     !.model_loaded = generation.model_loaded,
                                     !.loads = generation.loads]
       IN generation' =
            IF AfterValidation(Strip(t)) = "raise"
            THEN Finish(g, Raises("ValueError", EmptyTranscriptError))
            ELSE [g EXCEPT !.at = "legacy_call_model"]
    /\ UNCHANGED <<config, state_file, s3_object, store_op, store_before, pipelineVars>>

\* self._call_model(prompt) of the flat summarizer.py: completion...content or ""
LegacyCallModel ==
    /\ generation.at = "legacy_call_model"
    /\ LET g == [generation EXCEPT !.steps = Append(@, "_call_model")]
       IN \/ generation' = Finish(g, Raises("APIError", ""))
          \/ \E reply \in Replies :
                generation' = [g EXCEPT !.at = "parse", !.reply = reply,
                                        !.response = Render(reply)]
    /\ UNCHANGED <<config, state_file, s3_object, store_op, store_before, pipelineVars>>

\* the call is over: its caller has the bundle or the exception, the summarizer keeps its model
ReturnToCaller ==
    /\ generation.at = "done"
    /\ generation' = [NoGeneration EXCEPT !.model_loaded = generation.model_loaded,
                                     !.loads = generation.loads]
    /\ UNCHANGED <<config, state_file, s3_object, store_op, store_before, pipelineVars>>

SummarizerNext ==
    \/ \E t \in Transcripts : GenerateSummariesCall(t)
    \/ LoadModel
    \/ CallModel
    \/ ParseResponseStep
    \/ \E reply \in Replies : ParseResponseCall(reply)
    \/ \E t \in Transcripts : LegacyGenerateSummariesCall(t)
    \/ LegacyCallModel
    \/ ReturnToCaller

SummarizerInit ==
    /\ Init
    /\ config = [mode |-> "once", use_s3 |-> FALSE, s3_manager |-> TRUE,
                 email_enabled |-> FALSE]

SummarizerSpec == SummarizerInit /\ [][SummarizerNext]_vars

(***************************************************************************)
(* The notifier on its own: the three send operations of                   *)
(* src/services/email_service.py and send_summary_email of the flat        *)
(* email_service.py, one action per call on the SMTP client.               *)
(***************************************************************************)
SendOperations == {"send_summary_email", "send_error_email", "send_no_new_videos_email"}

\* config.smtp_sender as str.split("@") sees it: the parts between the @ signs
Senders == {<<"sender", "example.com">>, <<"a", "b", "mail.org">>}

\* exceptions of smtplib.SMTP(...) and of the calls on the client
TransportErrors ==
    {"SMTPAuthenticationError", "SMTPRecipientsRefused", "SMTPServerDisconnected",
     "SMTPException", "OSError"}

\* smtplib.SMTPException and its subclasses
IsSmtpException(e) == e \in TransportErrors \ {"OSError"}

SmtpTimeout == 30

\* self.config.smtp_sender.split("@")[-1]
SenderDomain(sender) == sender[Len(sender)]

\* _resolve_smtp_target(): f"smtp.{sender_domain}"
ResolveSmtpTarget(sender) == <<"smtp.", SenderDomain(sender)>>

DeliveryEnabled_Always(cfg) == TRUE

\* self.config.email_enabled
DeliveryEnabled(cfg) == cfg.email_enabled

AfterStep_SendFirst(step) ==
    CASE step = "SMTP" -> "send_message"
      [] step = "send_message" -> "starttls"
      [] step = "starttls" -> "login"
      [] OTHER -> "quit"

\* the body of the with block: starttls, login, send_message, then the exit of the block
AfterStep(step) ==
    CASE step = "SMTP" -> "starttls"
      [] step = "starttls" -> "login"
      [] step = "login" -> "send_message"
      [] OTHER -> "quit"

\* the exception a send operation raises for an exception of the transport
RaisedFor(legacy, e) ==
    IF legacy /\ ~IsSmtpException(e) THEN e ELSE "RuntimeError"

SendFinished(d, e) ==
    [d EXCEPT !.at = "done",
              !.status = IF e = "none" THEN "returned" ELSE "raised",
              !.exception = IF e = "none" THEN "none" ELSE RaisedFor(d.legacy, e),
              !.cause = e]

framedBySend == <<config, state_file, s3_object, store_op, store_before, generation,
                  poller, pc, cycle, outcome, exc, last_video_id, latest, transcript,
                  summaries, error_reason, result, transcript_list, chosen, audio_path,
                  whisper, calls, tcalls, mail, writes, source, acquisition,
                  summary_error, prev_failed, handled, offered, underlying, error, startup>>

\* a send operation up to smtplib.SMTP(...)
SendCall(op, legacy, sender) ==
    /\ delivery.at \in {"idle", "done"}
    /\ legacy => op = "send_summary_email"
    /\ LET d == [NoDelivery EXCEPT !.name = op, !.legacy = legacy, !.smtp_sender = sender]
       IN delivery' =
            IF ~DeliveryEnabled(config)
            THEN SendFinished(d, "none")
            ELSE [d EXCEPT !.at = "SMTP"]
    /\ UNCHANGED framedBySend

\* smtplib.SMTP(host, port, timeout=30)
Connect ==
    /\ delivery.at = "SMTP"
    /\ \E r \in {"ok"} \cup TransportErrors :
          LET d == [delivery EXCEPT !.smtp = Append(@, [call |-> "SMTP", ok |-> r = "ok"]),
                                    !.host = ResolveSmtpTarget(delivery.smtp_sender),
                                    !.timeout = SmtpTimeout]
          IN delivery' = IF r = "ok"
                         THEN [d EXCEPT !.at = AfterStep("SMTP")]
                         ELSE SendFinished(d, r)
    /\ UNCHANGED framedBySend

\* client.starttls(), client.login(...), client.send_message(message)
ClientCall ==
    /\ delivery.at \in {"starttls", "login", "send_message"}
    /\ \E r \in {"ok"} \cup TransportErrors :
          LET d == [delivery EXCEPT !.smtp = Append(@, [call |-> delivery.at,
                                                        ok |-> r = "ok"])]
          IN delivery' = IF r = "ok"
                         THEN [d EXCEPT !.at = AfterStep(delivery.at)]
                         ELSE [d EXCEPT !.at = "quit", !.cause = r]
    /\ UNCHANGED framedBySend

\* the exit of the with block: QUIT and close, on success and on an exception alike
ClientExit ==
    /\ delivery.at = "quit"
    /\ \E r \in {"ok", "SMTPException", "OSError"} :
          delivery' =
             SendFinished([delivery EXCEPT !.smtp = Append(@, [call |-> "quit",
                                                               ok |-> r = "ok"])],
                          IF r = "ok" THEN delivery.cause ELSE r)
    /\ UNCHANGED framedBySend

NotifierNext ==
    \/ \E op \in SendOperations, legacy \in BOOLEAN, sender \in Senders :
          SendCall(op, legacy, sender)
    \/ Connect
    \/ ClientCall
    \/ ClientExit

NotifierInit ==
    /\ Init
    /\ config.mode = "once"
    /\ ~config.use_s3

NotifierSpec == NotifierInit /\ [][NotifierNext]_vars

(***************************************************************************)
(* The start of a process: load_config of config/config.py, then the first *)
(* cycle of the process, over the state an earlier process may have left.  *)
(* config.email_enabled and config.use_s3 stand for *)
(* EMAIL_SUMMARIES_ENABLED and S3_STATE_BUCKET of the environment; the     *)
(* lookup in Secrets Manager is taken to succeed and its values are merged *)
(* into the settings.                                                      *)
(***************************************************************************)
Environments ==
    [YOUTUBE_API_KEY : Settings, YOUTUBE_CHANNEL_HANDLE : Settings,
     SMTP_PASSWORD : Settings, SMTP_SENDER : Settings, SMTP_RECIPIENT : Settings]

\* if not value
Falsy(value) == value \in {"unset", ""}

\* the names checked under "Validate required fields"
RequiredSettings == <<"YOUTUBE_API_KEY", "YOUTUBE_CHANNEL_HANDLE">>

\* mutant: the recipient is not among the required fields
RequiredEmailFields_NoRecipient == <<"SMTP_PASSWORD", "SMTP_SENDER">>

\* required_fields of Config.require_email_settings
RequiredEmailFields == <<"SMTP_PASSWORD", "SMTP_SENDER", "SMTP_RECIPIENT">>

\* missing = [name for name, value in ... if not value]
MissingOf(env, names) ==
    LET IsMissing(name) == Falsy(env[name]) IN SelectSeq(names, IsMissing)

\* Config.require_email_settings: the fields whose absence makes it raise
MissingEmailSettings(cfg, env) ==
    IF ~cfg.email_enabled THEN <<>> ELSE MissingOf(env, RequiredEmailFields)

\* load_config() at the start of main(), run_once(), run_loop's caller or lambda_handler
LoadConfig(env) ==
    /\ pc = "idle"
    /\ startup.at = "none"
    /\ startup' =
          IF MissingOf(env, RequiredSettings) # <<>>
          THEN [at |-> "raised", env |-> env, exception |-> "ValueError",
                message |-> "Missing required configuration: ",
                missing |-> MissingOf(env, RequiredSettings)]
          ELSE IF MissingEmailSettings(config, env) # <<>>
               THEN [at |-> "raised", env |-> env, exception |-> "ValueError",
                     message |-> "Email summaries enabled, but missing SMTP fields: ",
                     missing |-> MissingEmailSettings(config, env)]
               ELSE [at |-> "loaded", env |-> env, exception |-> "none", message |-> "",
                     missing |-> <<>>]
    /\ UNCHANGED <<config, state_file, s3_object, store_op, store_before, generation,
                   poller, pc, cycle, outcome, exc, last_video_id, latest, transcript,
                   summaries, error_reason, result, transcript_list, chosen, audio_path,
                   whisper, calls, tcalls, mail, writes, source, acquisition,
                   summary_error, prev_failed, handled, offered, underlying, error,
                   delivery>>

\* the process goes on after load_config returned: services are built and
\* process_latest_video is called
StartCycle ==
    /\ startup.at = "loaded"
    /\ cycle = 0
    /\ Invoke

ConfigNext ==
    \/ \E env \in Environments : LoadConfig(env)
    \/ StartCycle
    \/ LoadLastVideoId
    \/ FetchLatestVideo
    \/ NotifyNoNewVideos
    \/ ListTranscripts
    \/ FetchTranscript
    \/ DownloadAudio
    \/ WhisperTranscription
    \/ CleanupAudio
    \/ SaveLastVideoId
    \/ SummarizeCli
    \/ NotifyCli
    \/ SummarizeLambda
    \/ NotifyLambda

\* what an earlier process may have left in an artifact: nothing, or the first item
LeftArtifacts == {MissingArtifact, StateData(1, TitleOf(1))}

ConfigInit ==
    /\ config \in Configs
    /\ state_file \in LeftArtifacts
    /\ s3_object \in LeftArtifacts
    /\ poller = [channel_id |-> FALSE, uploads_playlist |-> FALSE]
    /\ pc = "idle"
    /\ cycle = 0
    /\ outcome = "none"
    /\ exc = "none"
    /\ last_video_id = None
    /\ latest = NoLatest
    /\ transcript = NoTranscript
    /\ summaries = FALSE
    /\ error_reason = UnknownReason
    /\ result = InitialResult
    /\ transcript_list = <<>>
    /\ chosen = NoTrack
    /\ audio_path = "none"
    /\ whisper = NoTranscript
    /\ calls = <<>>
    /\ tcalls = <<>>
    /\ mail = <<>>
    /\ writes = <<>>
    /\ store_before = <<state_file, s3_object>>
    /\ source = "none"
    /\ acquisition = "none"
    /\ summary_error = ""
    /\ prev_failed = None
    /\ handled = {}
    /\ offered = NoOffer
    /\ underlying = "none"
    /\ error = NoError
    /\ store_op = NoOp
    /\ generation = NoGeneration
    /\ delivery = NoDelivery
    /\ startup = NoStartup

ConfigSpec == ConfigInit /\ [][ConfigNext]_vars

(***************************************************************************)
(* Properties.                                                             *)
(***************************************************************************)
Has(seq, x) == \E i \in 1 .. Len(seq) : seq[i] = x

\* every occurrence of b in seq has an a before it
Before(seq, a, b) ==
    \A j \in 1 .. Len(seq) : seq[j] = b => \E i \in 1 .. (j - 1) : seq[i] = a

Sends == {"send_summary_email", "send_error_email", "send_no_new_videos_email"}

\* the state write of this cycle is in place: one write, of the polled item,
\* still held by the artifact it went to, the other artifact as the cycle found it
StateWritten ==
    /\ Len(writes) = 1
    /\ writes[1].data = [kind |-> "object", last_video_id |-> latest.video_id,
                         last_video_title |-> latest.title]
    /\ IF writes[1].backend = "s3"
       THEN s3_object = writes[1].data /\ state_file = store_before[1]
       ELSE state_file = writes[1].data /\ s3_object = store_before[2]

\* no state write was made in this cycle
StateUntouched ==
    /\ writes = <<>>
    /\ <<state_file, s3_object>> = store_before
    /\ ~Has(calls, "save_last_video_id")

\* C1: in a cycle whose polled item has the id that load_last_video_id returned,
\* the transcriber and the summarizer are never invoked and the state store is
\* not written; the cycle ends (after the optional no-new-videos notification).
C1_NoWorkWhenSameAsLast ==
    (latest # NoLatest /\ latest.video_id = last_video_id) =>
        /\ ~Has(calls, "transcribe")
        /\ tcalls = <<>>
        /\ ~Has(calls, "generate_summaries")
        /\ StateUntouched
        /\ pc \in {"idle", "no_new"}

C1_Witness ==
    /\ pc = "idle"
    /\ outcome = "returned"
    /\ Has(calls, "fetch_latest_video")
    /\ latest # NoLatest
    /\ latest.video_id = last_video_id

\* C2: when transcribe has returned for a new item, save_last_video_id is the
\* next call; every call of the summarizer has the state write of the same
\* cycle before it, and that write has the transcribe call before it.
C2_SaveBeforeSummarize ==
    /\ (acquisition = "ok" /\ pc # "save") => Has(calls, "save_last_video_id")
    /\ Has(calls, "save_last_video_id") => acquisition = "ok"
    /\ Before(calls, "transcribe", "save_last_video_id")
    /\ Before(calls, "save_last_video_id", "generate_summaries")
    /\ Has(calls, "generate_summaries") => StateWritten

C2_Witness ==
    /\ Has(calls, "generate_summaries")
    /\ calls = <<"load_last_video_id", "fetch_latest_video", "transcribe",
                 "save_last_video_id", "generate_summaries">>
    /\ Len(writes) = 1

\* C3: once an item's transcript has been acquired and the state written for
\* it, no later cycle invokes transcript acquisition for that item id again.
C3_NeverAcquiredAgain ==
    pc = "transcribe" => latest.video_id \notin handled

\* C4 (first half): a cycle whose transcribe raised made no state write, no
\* summarization and no notification, and left both artifacts as they were.
AcquisitionFailureLeavesNoTrace ==
    acquisition = "failed" =>
        /\ pc = "idle"
        /\ StateUntouched
        /\ ~Has(calls, "generate_summaries")
        /\ mail = <<>>

\* C4: when transcribe raises for a new item the cycle performs no state
\* write, no summarization and no notification, the stored state is left
\* unchanged, and the next cycle that polls the same item attempts
\* acquisition for it again.
C4_FailedAcquisitionRetried ==
    /\ AcquisitionFailureLeavesNoTrace
    /\ (prev_failed # None /\ latest.video_id = prev_failed) =>
           (pc = "transcribe" \/ Has(calls, "transcribe"))

C6_SummarizerFailureDegrades ==
    (config.mode # "lambda" /\ summary_error # "") =>
        /\ pc \in {"notify", "idle"}
        /\ ~summaries
        /\ StateWritten
        /\ error_reason = "Failed to generate summaries: " \o summary_error
        /\ pc = "notify" => mail = <<>>
        /\ pc = "idle" =>
              /\ outcome = "returned"
              /\ exc = "none"
              /\ Len(mail) = 1
              /\ mail[1].op = "send_error_email"
              /\ mail[1].title = latest.title
              /\ mail[1].reason = "Failed to generate summaries: " \o summary_error

C6_Witness ==
    /\ config.mode = "loop"
    /\ pc = "idle"
    /\ summary_error = "Model response was not valid JSON"
    /\ Len(mail) = 1
    /\ mail[1].reason = "Failed to generate summaries: Model response was not valid JSON"

\* C7 in the CLI orchestrator alone: when the acquired transcript is empty
\* after stripping whitespace, generate_summaries is not called, the state
\* write is in place when the test is made, send_error_email is attempted
\* with the empty-transcript reason when a notifier is present, and the
\* cycle returns normally.
EmptyTranscriptDegradesInCli ==
    (config.mode # "lambda" /\ transcript \in {"", "  "}) =>
        /\ ~Has(calls, "generate_summaries")
        /\ ~summaries
        /\ pc \in {"notify", "idle"} =>
              /\ StateWritten
              /\ error_reason = EmptyTranscriptReason
        /\ pc = "idle" =>
              /\ outcome = "returned"
              /\ exc = "none"
              /\ config.email_enabled =>
                    /\ Len(mail) = 1
                    /\ mail[1].op = "send_error_email"
                    /\ mail[1].reason = EmptyTranscriptReason
              /\ ~config.email_enabled => mail = <<>>

\* C7: when the acquired transcript is empty after stripping whitespace, the
\* summarizer is never invoked in that cycle, the state has already been
\* persisted, with a notifier present send_error_email is attempted with the
\* empty-transcript reason, and the cycle does not raise.
C7_EmptyTranscriptSkipsSummarizer ==
    transcript \in {"", "  "} =>
        /\ ~Has(calls, "generate_summaries")
        /\ pc \in {"notify", "idle"} => StateWritten
        /\ pc = "idle" =>
              /\ outcome = "returned"
              /\ exc = "none"
              /\ config.email_enabled =>
                    /\ Len(mail) = 1
                    /\ mail[1].op = "send_error_email"
                    /\ mail[1].reason = EmptyTranscriptReason

\* the notifications of a CLI cycle: exactly one, after the state write, the
\* result email if and only if the summarizer returned a bundle, else the
\* error email
OneNotification ==
    /\ Len(mail) = 1
    /\ Cardinality({i \in 1 .. Len(calls) : calls[i] \in Sends}) = 1
    /\ calls[Len(calls)] = mail[1].op
    /\ Before(calls, "save_last_video_id", mail[1].op)
    /\ StateWritten
    /\ mail[1].op \in {"send_summary_email", "send_error_email"}
    /\ mail[1].op = "send_summary_email" <=> summaries
    /\ summaries <=> (Has(calls, "generate_summaries") /\ summary_error = "")

C9_NotificationFailureOnlyLogged ==
    (pc = "idle" /\ \E i \in 1 .. Len(mail) : ~mail[i].delivered) =>
        /\ outcome = "returned"
        /\ exc = "none"
        /\ Len(mail) = 1
        /\ IF mail[1].op = "send_no_new_videos_email"
           THEN StateUntouched
           ELSE StateWritten /\ latest.video_id \in handled

C9_Witness ==
    /\ config.mode = "once"
    /\ pc = "idle"
    /\ Len(mail) = 1
    /\ mail[1].op = "send_no_new_videos_email"
    /\ ~mail[1].delivered
    /\ mail[1].title = TitleOf(latest.video_id)

\* C10: in transcribe a later strategy is never attempted once an earlier one
\* has produced a transcript: a cycle that fetched a manual caption fetches no
\* auto caption, and once a caption fetch has produced text neither the media
\* download nor the speech-to-text call is made and transcribe returns that
\* text.
C10_NoLaterStrategyAfterSuccess ==
    /\ Has(tcalls, "fetch_manual") => ~Has(tcalls, "fetch_auto")
    /\ source \in {"manual_caption", "auto_caption"} =>
          /\ ~Has(tcalls, "download_audio")
          /\ ~Has(tcalls, "transcriptions.create")
          /\ ~Has(tcalls, "os.remove")
          /\ acquisition = "ok"
          /\ tcalls = <<"list_transcripts",
                        IF source = "manual_caption" THEN "fetch_manual" ELSE "fetch_auto">>

C10_Witness ==
    /\ source = "manual_caption"
    /\ acquisition = "ok"
    /\ transcript = ""
    /\ pc = "save"

\* transcribe has left the media fallback: it returned or raised
MediaFallbackLeft == Has(tcalls, "download_audio") /\ acquisition # "none"

\* C11 (the part the code keeps): transcribe never ends without text unless
\* the media fallback was attempted, and the media fallback starts only after
\* the caption lookup gave nothing.
MediaFallbackAfterCaptionFailure ==
    /\ acquisition = "failed" => Has(tcalls, "download_audio")
    /\ (acquisition = "ok" /\ source = "media_fallback") => Has(tcalls, "download_audio")
    /\ pc = "download" => (source = "none" /\ Has(tcalls, "list_transcripts"))

\* C11: in transcribe a later strategy is always attempted when an earlier
\* one raises or returns nothing: when the fetch of the chosen manual track
\* raises and the listing offered an auto-generated track, the auto-caption
\* fetch is attempted before the media fallback starts; when the caption
\* lookup gives nothing the media fallback is attempted.
C11_LaterStrategyAfterFailure ==
    /\ MediaFallbackAfterCaptionFailure
    /\ (pc = "download" /\ Has(tcalls, "fetch_manual") /\ offered.auto) =>
           Has(tcalls, "fetch_auto")

\* C12: the track handed to fetch is a manual track whenever the listing has
\* one, an auto-generated track only when it has none; among the tracks of
\* that kind it is the first English one when there is one, otherwise the
\* first track.
C12_TrackChoice ==
    pc = "fetch" =>
        LET manual == SelectSeq(transcript_list, IsManual)
            auto == SelectSeq(transcript_list, IsGenerated)
            pool == IF manual # <<>> THEN manual ELSE auto
            en == {i \in 1 .. Len(pool) : pool[i].language_code = "en"}
        IN /\ pool # <<>>
           /\ chosen.is_generated <=> (manual = <<>>)
           /\ IF en # {}
              THEN chosen = pool[CHOOSE i \in en : \A j \in en : i <= j]
              ELSE chosen = pool[1]
           /\ tcalls = <<"list_transcripts">>

C12_Witness ==
    /\ pc = "fetch"
    /\ transcript_list = <<[is_generated |-> TRUE, language_code |-> "en"],
                           [is_generated |-> FALSE, language_code |-> "fr"]>>
    /\ chosen = [is_generated |-> FALSE, language_code |-> "fr"]

C14_ArtifactRemovedOnEveryExit ==
    (MediaFallbackLeft /\ audio_path \in {"file", "removed"}) =>
        /\ Has(tcalls, "os.remove")
        /\ Before(tcalls, "transcriptions.create", "os.remove")
        /\ tcalls[Len(tcalls)] = "os.remove"
        /\ IF underlying = "none"
           THEN acquisition = "ok" /\ source = "media_fallback" /\ transcript \in Transcripts
           ELSE acquisition = "failed" /\ error.kind = "RuntimeError" /\ underlying = "APIError"

C14_Witness ==
    /\ MediaFallbackLeft
    /\ audio_path = "file"
    /\ acquisition = "failed"
    /\ Has(tcalls, "os.remove")

\* the artifact the last load read
ReadArtifact == IF store_op.read = "s3" THEN s3_object ELSE state_file

\* C15 for load_last_video_id of config/config.py and artifacts that decode:
\* a missing artifact, invalid JSON and JSON that is not an object give no
\* last id and no exception, locally and remotely.
CurrentLoadToleratesBadJson ==
    (/\ store_op.name = "load"
     /\ store_op.read # "none"
     /\ ReadArtifact.kind \in {"missing", "invalid", "nonobject"}) =>
        (store_op.raised = "none" /\ store_op.value = None)

\* C15: load_last_video_id returns no last id and does not raise when the
\* artifact it reads is missing, is not valid JSON or is JSON that is not an
\* object, for both variants of the function and both backends.
C15_LoadToleratesCorruptState ==
    (/\ store_op.name \in {"load", "legacy_load"}
     /\ store_op.read # "none"
     /\ ReadArtifact.kind \in {"missing", "invalid", "nonobject", "undecodable"}) =>
        (store_op.raised = "none" /\ store_op.value = None)

\* C16 for failures of the remote calls: when the remote client exists and
\* the remote call fails, load and save go to the local file.
RemoteCallFailureFallsBack ==
    (store_op.name \in {"load", "save"} /\ store_op.remote = "failed") =>
        /\ config.use_s3 /\ config.s3_manager
        /\ store_op.raised # "ValueError"
        /\ store_op.name = "load" => store_op.read = "local"
        /\ store_op.name = "save" =>
              /\ store_op.wrote = "local"
              /\ store_op.raised = "none"
              /\ state_file.last_video_id = store_op.video_id

\* C16: with a remote backend configured, whenever the remote backend fails
\* or its client is unavailable, load_last_video_id and save_last_video_id
\* fall back to the local file and do not raise because of it.
C16_RemoteFailureFallsBack ==
    (/\ config.use_s3
     /\ store_op.name \in {"load", "save"}
     /\ store_op.remote \in {"failed", "unavailable"}) =>
        /\ store_op.read = "local" \/ store_op.wrote = "local"
        /\ store_op.raised # "ValueError"

\* C17: after save_last_video_id(id, title) has returned, the artifact it
\* wrote is the JSON object with exactly last_video_id = id and
\* last_video_title = title, whatever the artifact held before (another id,
\* more keys, invalid content), and the other artifact is as it was.
C17_SaveOverwrites ==
    (store_op.name = "save" /\ store_op.raised = "none") =>
        /\ store_op.wrote \in {"s3", "local"}
        /\ (IF store_op.wrote = "s3" THEN s3_object ELSE state_file) =
              [kind |-> "object", last_video_id |-> store_op.video_id,
               last_video_title |-> store_op.title]
        /\ IF store_op.wrote = "s3"
           THEN state_file = store_before[1]
           ELSE s3_object = store_before[2]
        /\ store_op.title = TitleOf(store_op.video_id)

C17_Witness ==
    /\ store_op.name = "save"
    /\ store_op.wrote = "s3"
    /\ store_before[2].kind = "object+"
    /\ store_before[2].last_video_id # store_op.video_id
    /\ s3_object.kind = "object"
    /\ s3_object.last_video_id = store_op.video_id

\* C18: generate_summaries called with a transcript that is empty once stripped raises
\* the validation failure, and the call has neither loaded the model nor invoked
\* the generation
C18_EmptyTranscriptRejectedFirst ==
    (/\ generation.name \in {"generate_summaries", "legacy_generate_summaries"}
     /\ Strip(generation.transcript) = "") =>
        /\ generation.at = "done"
        /\ generation.result.status = "raised"
        /\ generation.result.exception = "ValueError"
        /\ generation.result.message = EmptyTranscriptError
        /\ ~Has(generation.steps, "_load_model")
        /\ ~Has(generation.steps, "_call_model")

C18_Witness ==
    /\ generation.name = "generate_summaries"
    /\ generation.transcript = "  "
    /\ generation.result.status = "raised"
    /\ generation.steps = <<"generate_summaries">>

\* JSON object texts that carry both summary fields
SummaryObjects ==
    {d \in JsonDocs : /\ d.type = "object"
                      /\ d.short_summary # Absent
                      /\ d.comprehensive_summary # Absent}

HasFence(d) == Has(SerDoc(d), Fence)

\* the bundle is the two fields of the object, for the fields that are strings
BundleIsFields(res, d, normalise(_)) ==
    /\ d.short_summary.type = "string" =>
          res.short_summary = normalise(d.short_summary.text)
    /\ d.comprehensive_summary.type = "string" =>
          res.comprehensive_summary = normalise(d.comprehensive_summary.text)

AsWritten(text) == text

\* for an object without a code fence in its values: fenced and raw parse alike,
\* and a bundle returned for the raw text holds the string fields, stripped
FenceFreeParsesAlike ==
    (/\ generation.name = "_parse_response"
     /\ generation.reply.doc \in SummaryObjects
     /\ ~HasFence(generation.reply.doc)) =>
        /\ generation.reply.wrap \in {"fence", "json_fence"} =>
              generation.result = ParseResponse(SerDoc(generation.reply.doc))
        /\ (generation.reply.wrap = "raw" /\ generation.result.status = "returned") =>
              BundleIsFields(generation.result, generation.reply.doc, StripText)

\* C19: for every JSON object text J with both summary fields, _parse_response of J
\* wrapped in a code fence (with or without the json tag) gives what _parse_response
\* of raw J gives, and the bundle returned for raw J equals the two fields of the object
C19_FencedParsesLikeRaw ==
    (/\ generation.name = "_parse_response"
     /\ generation.reply.doc \in SummaryObjects) =>
        /\ generation.reply.wrap \in {"fence", "json_fence"} =>
              generation.result = ParseResponse(SerDoc(generation.reply.doc))
        /\ (generation.reply.wrap = "raw" /\ generation.result.status = "returned") =>
              BundleIsFields(generation.result, generation.reply.doc, AsWritten)

\* the first half of C19 on its own, fenced and raw give the same outcome: refuted by
\* an object with one code fence inside a value, which parses raw and not fenced
FencedOutcomeIsRawOutcome ==
    (/\ generation.name = "_parse_response"
     /\ generation.reply.doc \in SummaryObjects
     /\ generation.reply.wrap \in {"fence", "json_fence"}) =>
        generation.result = ParseResponse(SerDoc(generation.reply.doc))

\* the document the parsing step read out of the response of this call
ParsedOutput ==
    IF generation.name = "legacy_generate_summaries"
    THEN JsonLoads(generation.response)
    ELSE JsonLoads(JsonMatch(ExtractJsonFromMarkdown(generation.response)))

\* C20: a bundle returned by generate_summaries has a non-empty short_summary and a
\* non-empty comprehensive_summary whatever the JSON type of each field, and an output
\* with a field that is empty after parsing ends in an error, never in a bundle
C20_ReturnedBundleNonEmpty ==
    /\ generation.result.status = "returned" =>
          /\ generation.result.short_summary # <<>>
          /\ generation.result.comprehensive_summary # <<>>
    /\ (/\ generation.name \in {"generate_summaries", "legacy_generate_summaries"}
        /\ generation.at = "done"
        /\ Has(generation.steps, "_parse_response")
        /\ ParsedOutput \in SummaryObjects
        /\ \/ Coerce(ParsedOutput.short_summary) = <<>>
           \/ Coerce(ParsedOutput.comprehensive_summary) = <<>>) =>
          generation.result.status = "raised"

C20_Witness ==
    /\ generation.name = "generate_summaries"
    /\ generation.result.status = "returned"
    /\ generation.reply.doc.short_summary.type = "list"
    /\ generation.reply.doc.comprehensive_summary.type = "object"

\* an output with an empty field is seen and turned down
EmptyFieldRejected ==
    /\ generation.name = "generate_summaries"
    /\ generation.reply.doc \in SummaryObjects
    /\ generation.reply.doc.short_summary.type = "list"
    /\ Coerce(generation.reply.doc.short_summary) = <<>>
    /\ generation.result.message = "Summaries must not be empty."

\* the str the source prescribes for a value of each JSON type
CoercedText(v) ==
    CASE v.type = "object" ->
            IF v.text = <<>> THEN <<"{", "}">>
            ELSE <<"{", "nl", " ", " ">> \o v.text \o <<"nl", "}">>
      [] v.type = "list" ->
            IF Len(v.items) = 0 THEN <<>>
            ELSE IF Len(v.items) = 1 THEN v.items[1]
            ELSE v.items[1] \o <<" ">> \o v.items[2]
      [] v.type = "null" -> <<"None">>
      [] v.type = "number" -> v.text
      [] OTHER -> StripRight(StripLeft(v.text))

\* C21: in _parse_response a field that is not text is turned into text, not rejected:
\* an object into its JSON text, a list into its items joined by blanks, anything else
\* into its trimmed string form; the bundle is rejected only when a field is then empty
C21_FieldsCoerced ==
    (/\ generation.name = "_parse_response"
     /\ generation.reply.wrap = "raw"
     /\ generation.reply.doc \in SummaryObjects
     /\ ~HasFence(generation.reply.doc)) =>
        LET short == CoercedText(generation.reply.doc.short_summary)
            comprehensive == CoercedText(generation.reply.doc.comprehensive_summary)
        IN IF short = <<>> \/ comprehensive = <<>>
           THEN /\ generation.result.status = "raised"
                /\ generation.result.message = "Summaries must not be empty."
           ELSE /\ generation.result.status = "returned"
                /\ generation.result.short_summary = short
                /\ generation.result.comprehensive_summary = comprehensive

C21_Witness ==
    /\ generation.name = "_parse_response"
    /\ generation.reply.wrap = "raw"
    /\ generation.reply.doc.type = "object"
    /\ generation.reply.doc.short_summary.type = "object"
    /\ generation.reply.doc.short_summary.text # <<>>
    /\ generation.reply.doc.comprehensive_summary.type = "list"
    /\ Len(generation.reply.doc.comprehensive_summary.items) = 2
    /\ generation.result.status = "returned"

\* failures of generate_summaries other than an output that is JSON but no object
\* reach the caller as ValueError with a cause
OtherFailuresAreValueError ==
    (/\ generation.name = "generate_summaries"
     /\ generation.result.status = "raised"
     /\ ~(Has(generation.steps, "_parse_response")
          /\ ParsedOutput.type \in {"list", "number"})) =>
        /\ generation.result.exception = "ValueError"
        /\ generation.result.message # ""

\* C22: every failure of generate_summaries (model load, generation, empty output,
\* invalid JSON, JSON that is no object, missing key, empty field) reaches the caller
\* as ValueError with a cause
C22_EveryFailureIsValueError ==
    (/\ generation.name = "generate_summaries"
     /\ generation.result.status = "raised") =>
        /\ generation.result.exception = "ValueError"
        /\ generation.result.message # ""

Count(seq, x) == Cardinality({i \in 1 .. Len(seq) : seq[i] = x})

\* the orchestrator calls generate_summaries at most once in a cycle
OneSummarizerCallPerCycle == Count(calls, "generate_summaries") <= 1

SummarizerFailedInCycle ==
    /\ Count(calls, "generate_summaries") = 1
    /\ summary_error # ""
    /\ pc = "idle"

\* C23: one call of generate_summaries invokes the text generation at most once; after
\* a generation or parse failure the call makes no second attempt
C23_NoSecondGeneration ==
    /\ Count(generation.steps, "_call_model") <= 1
    /\ Count(generation.steps, "_load_model") <= 1
    /\ Count(generation.steps, "_parse_response") <= 1
    /\ generation.result.status = "raised" => generation.at = "done"

C23_Witness ==
    /\ generation.name = "generate_summaries"
    /\ generation.at = "done"
    /\ generation.result.message = "Model response was not valid JSON"
    /\ generation.steps =
          <<"generate_summaries", "_load_model", "from_pretrained", "_call_model",
            "_parse_response">>

\* once loaded, the summarizer stays loaded and no step loads again
LoadedStaysLoaded ==
    [][generation.model_loaded =>
          (generation'.model_loaded /\ generation'.loads = generation.loads)]_vars

\* C24: over any sequence of generate_summaries calls on one summarizer, once a load
\* of the model has succeeded the model and the tokenizer are not loaded again:
\* the loads that succeeded number one at most, and a call that finds the pair cached
\* goes on to the generation without loading
C24_ModelLoadedOnce ==
    /\ generation.loads <= 1
    /\ generation.model_loaded <=> generation.loads = 1
    /\ (Has(generation.steps, "from_pretrained") /\ generation.at # "done") =>
          generation.loads = 1

\* a later call has gone through with the cached pair
C24_Witness ==
    /\ generation.name = "generate_summaries"
    /\ generation.result.status = "returned"
    /\ generation.loads = 1
    /\ generation.steps =
          <<"generate_summaries", "_load_model", "_call_model", "_parse_response">>

\* C25: with email delivery disabled in the configuration, each of the three send
\* operations returns without a connection, without a message and without raising
C25_DisabledSendsNothing ==
    (delivery.name \in SendOperations /\ ~config.email_enabled) =>
        /\ delivery.at = "done"
        /\ delivery.status = "returned"
        /\ delivery.exception = "none"
        /\ delivery.smtp = <<>>
        /\ delivery.host = <<>>

C25_Witness ==
    /\ ~config.email_enabled
    /\ delivery.name = "send_no_new_videos_email"
    /\ ~delivery.legacy
    /\ delivery.status = "returned"

\* in src/services/email_service.py every exception of the transport is raised as RuntimeError
CurrentTransportErrorIsRuntimeError ==
    (~delivery.legacy /\ delivery.status = "raised") =>
        /\ delivery.exception = "RuntimeError"
        /\ delivery.cause \in TransportErrors

\* C26: any transport error during a send (authentication, recipient refused, server
\* disconnected, other SMTP error, network error while connecting) reaches the caller
\* as RuntimeError, for each send operation
C26_TransportErrorIsRuntimeError ==
    (delivery.name \in SendOperations /\ delivery.status = "raised") =>
        /\ delivery.exception = "RuntimeError"
        /\ delivery.cause \in TransportErrors

CallsOf(d) == [i \in 1 .. Len(d.smtp) |-> d.smtp[i].call]

\* C27: a send that succeeds connects to "smtp." + the domain of the sender address with
\* a timeout of 30 seconds and calls starttls, login, send_message in that order; one
\* message at most is handed over per send, and none before TLS and login have completed
C27_SendSequence ==
    /\ (delivery.status = "returned" /\ config.email_enabled) =>
          /\ delivery.host = <<"smtp.", delivery.smtp_sender[Len(delivery.smtp_sender)]>>
          /\ delivery.timeout = 30
          /\ CallsOf(delivery) = <<"SMTP", "starttls", "login", "send_message", "quit">>
          /\ \A i \in 1 .. Len(delivery.smtp) : delivery.smtp[i].ok
    /\ Count(CallsOf(delivery), "send_message") <= 1
    /\ \A j \in 1 .. Len(delivery.smtp) :
          delivery.smtp[j].call = "send_message" =>
             /\ \E i \in 1 .. (j - 1) : delivery.smtp[i] = [call |-> "starttls", ok |-> TRUE]
             /\ \E i \in 1 .. (j - 1) : delivery.smtp[i] = [call |-> "login", ok |-> TRUE]

C27_Witness ==
    /\ config.email_enabled
    /\ delivery.name = "send_summary_email"
    /\ delivery.status = "returned"
    /\ delivery.smtp_sender = <<"a", "b", "mail.org">>
    /\ Len(delivery.smtp) = 5

LastCall == IF calls = <<>> THEN "none" ELSE calls[Len(calls)]

\* the cycle is over and fetch_latest_video returned no item
PolledNothing ==
    /\ pc = "idle"
    /\ LastCall = "fetch_latest_video"
    /\ latest = NoLatest
    /\ IF config.mode = "lambda"
       THEN result.message = "No videos found in channel"
       ELSE outcome = "returned"

NothingDone ==
    /\ ~Has(calls, "transcribe")
    /\ tcalls = <<>>
    /\ StateUntouched
    /\ mail = <<>>

\* when the poller returns no item nothing is acquired, written or sent, and the CLI
\* cycle returns
NoItemEndsQuietly ==
    PolledNothing => (NothingDone /\ outcome = "returned" /\ exc = "none")

\* C28: when the poller returns no item the cycle ends as a "no items" outcome that is
\* no error: no acquisition, no state write, no notification, and the outcome is not
\* reported as a failure (Lambda: not success = false, not statusCode 500)
C28_NoItemIsNoFailure ==
    PolledNothing =>
        /\ NothingDone
        /\ outcome = "returned"
        /\ exc = "none"
        /\ config.mode = "lambda" => (result.success /\ StatusCode(result) = 200)

\* the cycle is over and it ended in fetch_latest_video without an item: the channel
\* or the playlist was not resolved, the listing failed, or it listed nothing
SourceLookupEndedCycle ==
    /\ pc = "idle"
    /\ LastCall = "fetch_latest_video"
    /\ latest = NoLatest

\* a failed source lookup leaves no acquisition, no state write and no notification
LookupFailureDoesNothing == SourceLookupEndedCycle => NothingDone

\* C29: when the source lookup fails (channel handle or uploads playlist not resolved,
\* or the listing of the playlist fails) the poller yields no item and the cycle ends
\* quietly: no exception leaves the cycle, nothing is acquired, written or sent
C29_LookupFailureEndsQuietly ==
    SourceLookupEndedCycle =>
        /\ NothingDone
        /\ outcome = "returned"
        /\ exc = "none"

\* the title held by the artifact the no-new branch reads
StoredTitle ==
    LET file == IF config.use_s3 /\ config.s3_manager THEN s3_object ELSE state_file
    IN IF file.kind \in {"object", "object+"} THEN file.last_video_title ELSE None

\* the cycle is over, the polled item was the last processed one and the no-new
\* notification is enabled
NoNewCycleOver ==
    /\ pc = "idle"
    /\ latest # NoLatest
    /\ latest.video_id = last_video_id
    /\ config.mode = "once"
    /\ config.email_enabled

\* C30: when the polled item is the last processed one and the no-new notification is
\* enabled, send_no_new_videos_email is attempted once in the cycle, with the stored
\* title when it could be loaded and without a title otherwise; a failure to load the
\* title or to send is only logged and the cycle ends normally
C30_NoNewNotifiedOnce ==
    NoNewCycleOver =>
        /\ Count(calls, "send_no_new_videos_email") = 1
        /\ Len(mail) = 1
        /\ mail[1].op = "send_no_new_videos_email"
        /\ mail[1].title \in {StoredTitle, None}
        /\ ~config.use_s3 => mail[1].title = StoredTitle
        /\ outcome = "returned"
        /\ exc = "none"
        /\ StateUntouched

C30_Witness ==
    /\ NoNewCycleOver
    /\ config.use_s3
    /\ Len(mail) = 1
    /\ mail[1].delivered
    /\ mail[1].title = TitleOf(latest.video_id)

\* the title could not be loaded, or none is stored: the notification goes out without it
NoNewNotifiedWithoutTitle ==
    /\ NoNewCycleOver
    /\ Len(mail) = 1
    /\ mail[1].title = None
    /\ StoredTitle # None

\* bundles of _parse_response whose fields came out of stripped strings hold no blank field
StringFieldsAreNotBlank ==
    (/\ generation.name = "_parse_response"
     /\ generation.result.status = "returned"
     /\ generation.reply.doc \in SummaryObjects
     /\ generation.reply.doc.short_summary.type \notin {"list"}
     /\ generation.reply.doc.comprehensive_summary.type \notin {"list"}) =>
        /\ StripText(generation.result.short_summary) # <<>>
        /\ StripText(generation.result.comprehensive_summary) # <<>>

\* C40: no bundle returned by _parse_response has a field of whitespace only: each field
\* returned holds a character that is no whitespace, for string, list and object values
C40_NoBlankField ==
    (generation.name = "_parse_response" /\ generation.result.status = "returned") =>
        /\ StripText(generation.result.short_summary) # <<>>
        /\ StripText(generation.result.comprehensive_summary) # <<>>

\* an object between words that hold no brace is located and parsed like the object alone
ObjectAmongPlainWordsLocated ==
    (/\ generation.name = "_parse_response"
     /\ generation.reply.doc \in SummaryObjects
     /\ ~HasFence(generation.reply.doc)
     /\ generation.reply.wrap \in {"prose", "padded"}) =>
        generation.result = ParseResponse(SerDoc(generation.reply.doc))

\* the object alone parses to a bundle
ParsesAlone(d) == ParseResponse(SerDoc(d)).status = "returned"

\* C37: for an output that holds one valid JSON object with both summary fields, with
\* any other text before or after it, _parse_response locates the object and returns
\* its bundle
C37_ObjectLocatedInText ==
    (/\ generation.name = "_parse_response"
     /\ generation.reply.doc \in SummaryObjects
     /\ ~HasFence(generation.reply.doc)
     /\ ParsesAlone(generation.reply.doc)
     /\ generation.reply.wrap \in {"prose", "padded", "braced_prose"}) =>
        generation.result = ParseResponse(SerDoc(generation.reply.doc))

\* a cycle of run_loop is over
LoopCycleOver == config.mode = "loop" /\ pc = "idle" /\ cycle >= 1

\* a cycle of run_loop that got as far as the summarizer or the notifier returns, so
\* the loop goes on to sleep: a summarization or notification failure does not end it
LoopSurvivesLateFailures ==
    (LoopCycleOver /\ (Has(calls, "generate_summaries") \/ mail # <<>>)) =>
        outcome = "returned"

\* C31: in continuous mode the cycle repeats for ever: after every cycle, whatever its
\* outcome, process_latest_video has returned to run_loop, which sleeps and starts the
\* next cycle; a failed cycle never prevents the next one
C31_LoopSurvivesEveryCycle ==
    LoopCycleOver => (outcome = "returned" /\ exc = "none")

\* C33: in every cycle the state store is written at most once, and a write is made
\* only after transcribe returned the transcript of a polled item whose id differs
\* from the stored one; without a write both artifacts are as the cycle found them
C33_AtMostOneWritePerCycle ==
    /\ Len(writes) <= 1
    /\ Count(calls, "save_last_video_id") <= 1
    /\ writes # <<>> =>
          /\ acquisition = "ok"
          /\ latest # NoLatest
          /\ latest.video_id # last_video_id
          /\ Before(calls, "transcribe", "save_last_video_id")
          /\ writes[1].data.last_video_id = latest.video_id
    /\ writes = <<>> => <<state_file, s3_object>> = store_before

\* a finished cycle that acquired a new item's transcript and wrote the state once
C33_Witness ==
    /\ pc = "idle"
    /\ cycle >= 1
    /\ acquisition = "ok"
    /\ Len(writes) = 1
    /\ writes[1].data.last_video_id = latest.video_id

\* the reads of the state artifact made so far in this cycle
StateReads == Count(calls, "load_last_video_id") + Count(calls, "load_state")

\* load_last_video_id is called once per cycle, before the poller, and apart from the
\* title lookup of the no-new-videos notification nothing else reads the state
StateLoadedOnceBeforePoll ==
    /\ Count(calls, "load_last_video_id") <= 1
    /\ Before(calls, "load_last_video_id", "fetch_latest_video")
    /\ Has(calls, "load_state") =>
          /\ Count(calls, "load_state") = 1
          /\ LastCall = "send_no_new_videos_email"
          /\ latest # NoLatest
          /\ latest.video_id = last_video_id

\* C34: in every cycle the state store is read exactly once, at cycle start before
\* the poller is invoked; no later step of the cycle, the no-new-item notification
\* path included, reads the state artifact again
C34_StateReadOnce ==
    /\ StateReads <= 1
    /\ Has(calls, "fetch_latest_video") =>
          (StateReads = 1 /\ Before(calls, "load_last_video_id", "fetch_latest_video"))

\* a finished Lambda cycle in which generate_summaries was called for a new item and
\* gave no bundle, with a notifier present
LambdaSummaryFailed ==
    /\ config.mode = "lambda"
    /\ config.email_enabled
    /\ pc = "idle"
    /\ Has(calls, "generate_summaries")
    /\ ~summaries

\* what the Lambda orchestrator does then: the state is persisted, the reason goes
\* into the result message, the cycle reports success, and nothing is sent
LambdaSummaryFailureIsSilent ==
    LambdaSummaryFailed =>
        /\ Len(writes) = 1
        /\ writes[1].data.last_video_id = latest.video_id
        /\ result.message = ReasonFor(summary_error)
        /\ result.success
        /\ ~result.summaries_generated
        /\ ~result.email_sent
        /\ mail = <<>>

\* C35: in the Lambda orchestrator, when summarization fails for a new item and a
\* notifier is present, an error notification carrying the reason is attempted,
\* with the state already persisted
C35_LambdaSummaryFailureNotified ==
    LambdaSummaryFailed =>
        /\ Len(writes) = 1
        /\ Has(calls, "send_error_email")
        /\ Before(calls, "save_last_video_id", "send_error_email")
        /\ \E i \in 1 .. Len(mail) :
              mail[i].op = "send_error_email" /\ mail[i].reason = ReasonFor(summary_error)

\* a load_last_video_id that directly follows a save_last_video_id which returned
SaveThenLoad ==
    /\ store_op.name = "save"
    /\ store_op.raised = "none"
    /\ store_op'.name = "load"

\* the load after a save returns the saved id when it reads the artifact the save wrote
SaveThenLoadSameArtifact ==
    [][(SaveThenLoad /\ store_op'.read = store_op.wrote) =>
          (store_op'.raised = "none" /\ store_op'.value = store_op.video_id)]_vars

\* C36: the state store behaves as one logical instance: after a save_last_video_id(id)
\* that returns normally the next load_last_video_id returns id, whether the remote
\* backend was healthy or failing at the save and at the load
C36_SaveThenLoadReturnsId ==
    [][SaveThenLoad =>
          (store_op'.raised = "none" /\ store_op'.value = store_op.video_id)]_vars

CaptionSources == {"manual_caption", "auto_caption"}

\* transcribe returned the empty joined text of a caption track
EmptyCaptionAcquired ==
    acquisition = "ok" /\ source \in CaptionSources /\ transcript = ""

\* the ids the next load_last_video_id can return from the artifacts as they are
NextLoadValues ==
    {IF config.use_s3 /\ s3_ok
     THEN S3LoadState(s3_object).last_video_id
     ELSE LoadStateFile(state_file).last_video_id : s3_ok \in BOOLEAN}

\* transcribe downloads the media exactly when the caption lookup gave None; an empty
\* caption text is returned without the media fetcher and the state is written for it
EmptyCaptionIsAcquisition ==
    /\ acquisition # "none" =>
          (Has(tcalls, "download_audio") <=> source \notin CaptionSources)
    /\ EmptyCaptionAcquired =>
          /\ ~Has(tcalls, "download_audio")
          /\ ~Has(tcalls, "transcriptions.create")
          /\ pc # "save" => StateWritten

\* C38: transcribe falls back to the media download if and only if
\* get_youtube_transcript returned None; a caption track whose joined text is empty is
\* returned without invoking the media fetcher, and the orchestrator persists the item
\* as processed, so that the next cycle loads its id and does not acquire it again
C38_EmptyCaptionAcquiredOnce ==
    /\ acquisition # "none" =>
          (Has(tcalls, "download_audio") <=> source \notin CaptionSources)
    /\ EmptyCaptionAcquired =>
          /\ ~Has(tcalls, "download_audio")
          /\ pc = "idle" => NextLoadValues = {latest.video_id}

\* the Lambda process_latest_video has returned its result
LambdaReturned == config.mode = "lambda" /\ pc = "idle" /\ cycle >= 1

\* save_last_video_id returned in this cycle, for the item named in the result
SavedInCycle ==
    /\ Len(writes) = 1
    /\ Has(calls, "save_last_video_id")
    /\ writes[1].data.last_video_id = result.video_id

\* C39: in every result returned by the Lambda process_latest_video the flags form a
\* chain: email_sent implies summaries_generated, summaries_generated implies the
\* state was saved in that cycle, a saved state implies that a transcript was acquired
\* for the item named in video_id, and success with a non-null video_id implies
\* the state was saved for that video_id
C39_ResultFlagsChain ==
    LambdaReturned =>
        /\ result.email_sent => result.summaries_generated
        /\ result.summaries_generated => SavedInCycle
        /\ writes # <<>> =>
              /\ SavedInCycle
              /\ acquisition = "ok"
              /\ result.video_id = latest.video_id
              /\ Before(calls, "transcribe", "save_last_video_id")
        /\ (result.success /\ result.video_id # None) => SavedInCycle

\* a Lambda result with every flag of the chain set
C39_Witness ==
    /\ LambdaReturned
    /\ result.email_sent
    /\ result.summaries_generated
    /\ result.success
    /\ result.video_id = latest.video_id
    /\ SavedInCycle

\* the environment load_config read lacks a required source setting, or has email
\* notification enabled and lacks the SMTP password, sender or recipient
UnusableEnvironment ==
    /\ startup.at # "none"
    /\ \/ \E name \in {"YOUTUBE_API_KEY", "YOUTUBE_CHANNEL_HANDLE"} :
             startup.env[name] \in {"unset", ""}
       \/ /\ config.email_enabled
          /\ \E name \in {"SMTP_PASSWORD", "SMTP_SENDER", "SMTP_RECIPIENT"} :
                startup.env[name] \in {"unset", ""}

\* C32: load_config raises, and no poll, acquisition, state write or notification
\* takes place, when a required source setting is missing or when email notification is
\* enabled but the SMTP password, sender or recipient is missing: the process starts
\* no cycle after that load
C32_LoadConfigRejectsMissingSettings ==
    UnusableEnvironment =>
        /\ startup.at = "raised"
        /\ startup.exception = "ValueError"
        /\ startup.missing # <<>>
        /\ pc = "idle"
        /\ cycle = 0
        /\ calls = <<>> /\ tcalls = <<>> /\ mail = <<>> /\ writes = <<>>
        /\ <<state_file, s3_object>> = store_before

\* load_config raised for enabled email with a sender that is set to nothing
C32_Witness ==
    /\ startup.at = "raised"
    /\ config.email_enabled
    /\ startup.env.YOUTUBE_API_KEY = "set"
    /\ startup.env.YOUTUBE_CHANNEL_HANDLE = "set"
    /\ startup.env.SMTP_PASSWORD = "set"
    /\ startup.env.SMTP_SENDER = ""
    /\ startup.missing = <<"SMTP_SENDER">>
====
